---- MODULE Spec2Model ----
(***************************************************************************)
(* The dashmon worker: due-set selection, probe execution, persistence,    *)
(* maintenance suppression and the alert cooldown ledger                   *)
(* (src/worker/worker.js, src/worker/maintenance.js), together with the    *)
(* tenant routes that write the fields the worker reads                    *)
(* (src/server/routes.js) and the schema (src/unnamed/part_017).           *)
(*                                                                         *)
(* Time is counted in whole minutes since the epoch.  The store clock      *)
(* (now()) and the worker clock (Date.now()) are one clock.                *)
(***************************************************************************)
EXTENDS Integers, Sequences, FiniteSets, TLC

\* ------------------------------------------------------------------ bounds
\* The clock runs over MaxTime minutes from Boot.
MaxTime == 2
\* Tenant cooldowns are 1 or MaxCooldown minutes (the route admits 1..10080).
MaxCooldown == 3
\* The batch bound of the due-set query (LIMIT 100), scaled to the model's fleet.
DueLimit == 2
\* The tenant makes at most MaxTenantOps maintenance requests.
MaxTenantOps == 1
\* At most MaxLockDepth modals are open at once (nested lock() calls).
MaxLockDepth == 3
\* The history table holds MaxSamples rows when a pruning run starts.
MaxSamples == 2
\* A limiter serves at most MaxCalls requests.
MaxCalls == 5
\* The limiter's clock runs over MaxClockSteps steps of ClockStep milliseconds.
MaxClockSteps == 4

\* ------------------------------------------------------------- constants
\* SQL NULL / JS null for a timestamp column.
NULL == -1
\* to_timestamp(0), the effective last_check of a never-checked device.
Epoch == 0
\* cfg.cooldown_minutes || 30
DefaultCooldown == 30

DeviceIds == {"d1", "d2"}
UserId == "u1"
StoreId == "s1"
\* The instant the model starts at: any instant more than 365 days after the epoch
\* (test-now writes now() - interval '365 days').
Boot == 365 * 24 * 60 + 1
Times == Boot..(Boot + MaxTime)

Min(a, b) == IF a <= b THEN a ELSE b

\* ---------------------------------------------------------------- state
VARIABLES
  now,        \* the clock, minutes
  devices,    \* table devices: id -> row
  stores,     \* table stores: id -> [maintenance_start, maintenance_end]
  alerts,     \* table alerts: set of rows (user_id, type, enabled, cooldown_minutes)
  ledger,     \* table alert_events: set of rows (user_id, device_id, event_type, last_sent)
  history,    \* table device_history: sequence of rows in insertion order
  smtp,       \* whether SMTP_HOST/USER/PASS/FROM are all set in the worker's environment
  pc,         \* the worker's position in main()/tick()
  due,        \* the rows of the current tick's due set not yet finished, head = current device
  result,     \* the current device's probe result (NoResult before the probe)
  mails,      \* ghost: (device_id, event_type) -> times of the last two mails the transport accepted
  lastAlert,  \* ghost: what the last maybeSendEmailAlert call saw and did (NoAlert outside it)
  tenantOps,  \* how many maintenance requests the tenant has made
  lastProbe,  \* probe specification: one executeDeviceCheck call's device, environment and outcome
  lastDue,    \* due-set specification: one getDueDevices call's rows and the tables before it
  lastUpsert, \* ledger specification: the last updateAlertEvent call's key, time and ledger before it
  lastMaint,  \* maintenance specification: one isInMaintenance call's row, time and answer
  scroll,     \* scroll-lock specification: the lock's closure variables, the page and the last call
  users,      \* table users: id -> [plan, plan_status, premium_until]
  limiter     \* rate-limit specification: the limiter's Map, the clock in ms and the last request

vars == <<now, devices, stores, alerts, ledger, history, smtp, pc, due, result,
          mails, lastAlert, tenantOps, lastProbe, lastDue, lastUpsert, lastMaint, scroll, users, limiter>>

NoResult == [none |-> TRUE]
NoAlert == [none |-> TRUE]
NoProbe == [none |-> TRUE]
NoDue == [none |-> TRUE]
NoUpsert == [none |-> TRUE]
NoMaint == [none |-> TRUE]
NoScroll == [none |-> TRUE]
NoLimiter == [none |-> TRUE]

\* ----------------------------------------------------- maintenance.js
\* isInWindow(now, start, end); timestamps read from TIMESTAMPTZ columns are
\* never invalid dates, so the NaN branches are not taken.
isInWindow(t, start, end) ==
  IF start = NULL THEN FALSE
  ELSE IF end = NULL THEN t >= start
  ELSE t >= start /\ t <= end

isInMaintenance_IgnoreStore(device, t) ==
  isInWindow(t, device.maintenance_start, device.maintenance_end)

isInMaintenance_NoOpenEnd(device, t) ==
  \/ device.store_maintenance_start # NULL /\ device.store_maintenance_end # NULL
     /\ isInWindow(t, device.store_maintenance_start, device.store_maintenance_end)
  \/ device.maintenance_start # NULL /\ device.maintenance_end # NULL
     /\ isInWindow(t, device.maintenance_start, device.maintenance_end)

isInMaintenance(device, t) ==
  LET storeActive == isInWindow(t, device.store_maintenance_start, device.store_maintenance_end)
  IN IF storeActive THEN TRUE
     ELSE isInWindow(t, device.maintenance_start, device.maintenance_end)

\* -------------------------------------------------------- probe executors
\* What the network does to one executeDeviceCheck call.
\*   ping  : "ok" | "fail" | "throw"   (execFile's callback, or execFile throwing)
\*   http  : the response's status code, 0 for none; "timeout"/"error" via httpEvent
\*   tcp   : port -> whether the connect succeeds
\*   lat   : port -> measured latency in ms
HttpEvents == {"response", "timeout", "error"}
StatusCodes == {200, 404, 499, 500, 503}
Latencies == {5, 9}

\* lib.get(url, ...) throws inside the Promise executor for a string that
\* new URL() rejects or whose protocol is not the chosen library's.
Urls == {"http://x", "https://x", "HTTPS://x", "ftp://x", "not a url"}
GetThrows(url) == url \notin {"http://x", "https://x"}

\* socket.connect(port, host) throws inside the Promise executor for a port
\* outside 0..65535.
Ports == {8080, 70000}
ConnectThrows(port) == port < 0 \/ port > 65535

Threw == [threw |-> TRUE]
Returned(r, att) == [threw |-> FALSE, result |-> r, attempts |-> att]

httpCheck_UpBelow400(url, env) ==
  IF GetThrows(url) THEN Threw
  ELSE IF env.httpEvent = "response"
    THEN LET ok == env.code # 0 /\ env.code < 400
         IN [threw |-> FALSE,
             result |-> [status |-> IF ok THEN "up" ELSE "down", latency |-> env.httpLat,
                         packet_loss |-> IF ok THEN 0 ELSE 100,
                         detail |-> [statusCode |-> env.code]]]
  ELSE [threw |-> FALSE,
        result |-> [status |-> "down", latency |-> env.httpLat, packet_loss |-> 100,
                    detail |-> [timeout |-> env.httpEvent = "timeout"]]]

httpCheck(url, env) ==
  IF GetThrows(url) THEN Threw
  ELSE IF env.httpEvent = "response"
    THEN LET ok == env.code # 0 /\ env.code < 500
         IN [threw |-> FALSE,
             result |-> [status |-> IF ok THEN "up" ELSE "down", latency |-> env.httpLat,
                         packet_loss |-> IF ok THEN 0 ELSE 100,
                         detail |-> [statusCode |-> env.code]]]
  ELSE IF env.httpEvent = "timeout"
    THEN [threw |-> FALSE,
          result |-> [status |-> "down", latency |-> env.httpLat, packet_loss |-> 100,
                      detail |-> [timeout |-> TRUE]]]
  ELSE [threw |-> FALSE,
        result |-> [status |-> "down", latency |-> env.httpLat, packet_loss |-> 100,
                    detail |-> [error |-> "message"]]]

\* tcpCheck(host, port): ok is whether 'connect' fires before 'timeout'/'error'.
tcpCheck_LossAlways(port, ok, lat) ==
  IF ConnectThrows(port) THEN Threw
  ELSE [threw |-> FALSE,
        result |-> [status |-> IF ok THEN "up" ELSE "down", latency |-> lat,
                    packet_loss |-> 100,
                    detail |-> IF ok THEN [ok |-> TRUE] ELSE [error |-> "message"]]]

tcpCheck(port, ok, lat) ==
  IF ConnectThrows(port) THEN Threw
  ELSE [threw |-> FALSE,
        result |-> [status |-> IF ok THEN "up" ELSE "down", latency |-> lat,
                    packet_loss |-> IF ok THEN 0 ELSE 100,
                    detail |-> IF ok THEN [ok |-> TRUE] ELSE [error |-> "message"]]]

PingUp == [status |-> "up", latency |-> NULL, packet_loss |-> 0, detail |-> [ping |-> "ok"]]

\* executeDeviceCheck(device) under environment env: whether it rejects, the
\* result it resolves to, and (ghost) the probes it attempted, in order.
\* A NULL url is "", a NULL port is 0: both falsy in the code's tests.
executeDeviceCheck_PortFirst(device, env) ==
  IF device.port # 0
    THEN tcpCheck(device.port, env.tcpPort, env.latPort) @@ [attempts |-> <<"tcp">>]
  ELSE IF device.url # "" THEN httpCheck(device.url, env) @@ [attempts |-> <<"http">>]
  ELSE IF env.ping = "ok" THEN Returned(PingUp, <<"ping">>)
  ELSE LET r1 == tcpCheck(443, env.tcp443, env.lat443)
           r2 == tcpCheck(80, env.tcp80, env.lat80)
       IN IF r1.result.status = "up"
            THEN r1 @@ [attempts |-> <<"ping", "tcp443">>]
            ELSE r2 @@ [attempts |-> <<"ping", "tcp443", "tcp80">>]

executeDeviceCheck_Tcp80First(device, env) ==
  IF device.url # "" THEN httpCheck(device.url, env) @@ [attempts |-> <<"http">>]
  ELSE IF device.port # 0
    THEN tcpCheck(device.port, env.tcpPort, env.latPort) @@ [attempts |-> <<"tcp">>]
  ELSE IF env.ping = "ok" THEN Returned(PingUp, <<"ping">>)
  ELSE LET r1 == tcpCheck(80, env.tcp80, env.lat80)
           r2 == tcpCheck(443, env.tcp443, env.lat443)
       IN IF r1.result.status = "up"
            THEN r1 @@ [attempts |-> <<"ping", "tcp80">>]
            ELSE r2 @@ [attempts |-> <<"ping", "tcp80", "tcp443">>]

executeDeviceCheck_NoShortCircuit(device, env) ==
  IF device.url # "" THEN httpCheck(device.url, env) @@ [attempts |-> <<"http">>]
  ELSE IF device.port # 0
    THEN tcpCheck(device.port, env.tcpPort, env.latPort) @@ [attempts |-> <<"tcp">>]
  ELSE IF env.ping = "ok" THEN Returned(PingUp, <<"ping">>)
  ELSE LET r1 == tcpCheck(443, env.tcp443, env.lat443)
           r2 == tcpCheck(80, env.tcp80, env.lat80)
       IN IF r2.result.status = "up"
            THEN r2 @@ [attempts |-> <<"ping", "tcp443", "tcp80">>]
            ELSE r1 @@ [attempts |-> <<"ping", "tcp443", "tcp80">>]

executeDeviceCheck(device, env) ==
  IF device.url # "" THEN httpCheck(device.url, env) @@ [attempts |-> <<"http">>]
  ELSE IF device.port # 0
    THEN tcpCheck(device.port, env.tcpPort, env.latPort) @@ [attempts |-> <<"tcp">>]
  ELSE IF env.ping = "ok" THEN Returned(PingUp, <<"ping">>)
  ELSE \* ping failed, or pingCheck threw and the catch swallowed it
       LET r1 == tcpCheck(443, env.tcp443, env.lat443)
           r2 == tcpCheck(80, env.tcp80, env.lat80)
       IN IF r1.result.status = "up"
            THEN r1 @@ [attempts |-> <<"ping", "tcp443">>]
            ELSE r2 @@ [attempts |-> <<"ping", "tcp443", "tcp80">>]

\* Every environment of one probe call, with latencies drawn from lats,
\* response codes from codes and request events from events.
ProbeEnvs(lats, codes, events) ==
  [ping : {"ok", "fail", "throw"},
   httpEvent : events, code : codes, httpLat : lats,
   tcpPort : BOOLEAN, latPort : lats,
   tcp443 : BOOLEAN, lat443 : lats,
   tcp80 : BOOLEAN, lat80 : lats]

\* ------------------------------------------------------------ the store
\* COALESCE(d.last_check, to_timestamp(0))
EffectiveLastCheck_NullsLast(row) ==
  IF row.last_check = NULL THEN Boot + MaxTime + 1 ELSE row.last_check

EffectiveLastCheck(row) == IF row.last_check = NULL THEN Epoch ELSE row.last_check

\* d.last_check IS NULL OR d.last_check <= now() - (d.ping_interval * interval '1 second')
IsDue_NullNeverDue(row, t) ==
  row.last_check # NULL /\ row.last_check * 60 <= t * 60 - row.ping_interval

IsDue(row, t) ==
  row.last_check = NULL \/ row.last_check * 60 <= t * 60 - row.ping_interval

\* SELECT d.*, s.maintenance_start AS store_maintenance_start, ... JOIN stores s
JoinedRow(devs, strs, d) ==
  [id |-> d, user_id |-> devs[d].user_id, store_id |-> devs[d].store_id,
   url |-> devs[d].url, port |-> devs[d].port,
   ping_interval |-> devs[d].ping_interval,
   status |-> devs[d].status, packet_loss |-> devs[d].packet_loss,
   last_check |-> devs[d].last_check,
   maintenance_start |-> devs[d].maintenance_start,
   maintenance_end |-> devs[d].maintenance_end,
   store_maintenance_start |-> strs[devs[d].store_id].maintenance_start,
   store_maintenance_end |-> strs[devs[d].store_id].maintenance_end]

\* ORDER BY COALESCE(d.last_check, to_timestamp(0)) ASC: the orders the query
\* may produce, ties in any order.
OrderByLastCheck(S) ==
  {s \in [1..Cardinality(S) -> S] :
     /\ \A i, j \in 1..Cardinality(S) : i # j => s[i] # s[j]
     /\ \A i \in 1..(Cardinality(S) - 1) :
          EffectiveLastCheck(s[i]) <= EffectiveLastCheck(s[i + 1])}

\* LIMIT n
Limit(s, n) == SubSeq(s, 1, Min(n, Len(s)))

\* getDueDevices(): the row sequences the query may return at time t.
getDueDevices(devs, strs, t) ==
  LET rows == {JoinedRow(devs, strs, d) :
                 d \in {e \in DOMAIN devs : devs[e].store_id \in DOMAIN strs}}
  IN {Limit(s, DueLimit) : s \in OrderByLastCheck({r \in rows : IsDue(r, t)})}

\* updateDevice(deviceId, userId, status, packetLoss) at time t
updateDevice(devs, deviceId, userId, status, packetLoss, t) ==
  [d \in DOMAIN devs |->
     IF d = deviceId /\ devs[d].user_id = userId
       THEN [devs[d] EXCEPT !.status = status, !.packet_loss = packetLoss, !.last_check = t]
       ELSE devs[d]]

\* writeHistory with latency and packet loss bound to each other's column.
writeHistory_SwappedColumns(h, deviceId, status, packetLoss, latency, t) ==
  Append(h, [device_id |-> deviceId, status |-> status, packet_loss |-> latency,
             latency |-> packetLoss, timestamp |-> t])

\* writeHistory(deviceId, status, packetLoss, latency, detail) at time t;
\* the detail column is not modelled.
writeHistory(h, deviceId, status, packetLoss, latency, t) ==
  Append(h, [device_id |-> deviceId, status |-> status, packet_loss |-> packetLoss,
             latency |-> latency, timestamp |-> t])

\* DELETE FROM device_history WHERE timestamp < now() - interval '90 days'
retentionCleanup_Inclusive(h, t) ==
  SelectSeq(h, LAMBDA r : ~(r.timestamp <= t - 90 * 24 * 60))

retentionCleanup(h, t) ==
  SelectSeq(h, LAMBDA r : ~(r.timestamp < t - 90 * 24 * 60))

\* shouldSendEmail(userId): the enabled email row, or NoRow
NoRow == [none |-> TRUE]
shouldSendEmail_IgnoreEnabled(tbl, userId) ==
  LET rows == {r \in tbl : r.user_id = userId /\ r.type = "email"}
  IN IF rows = {} THEN NoRow ELSE CHOOSE r \in rows : TRUE

shouldSendEmail(tbl, userId) ==
  LET rows == {r \in tbl : r.user_id = userId /\ r.type = "email" /\ r.enabled}
  IN IF rows = {} THEN NoRow ELSE CHOOSE r \in rows : TRUE

\* getLastAlertSent(userId, deviceId, eventType): ORDER BY last_sent DESC LIMIT 1
getLastAlertSent_AnyEvent(L, userId, deviceId, eventType) ==
  LET rows == {r \in L : r.user_id = userId /\ r.device_id = deviceId}
  IN IF rows = {} THEN NULL
     ELSE (CHOOSE r \in rows : \A q \in rows : q.last_sent <= r.last_sent).last_sent

getLastAlertSent(L, userId, deviceId, eventType) ==
  LET rows == {r \in L : r.user_id = userId /\ r.device_id = deviceId
                          /\ r.event_type = eventType}
  IN IF rows = {} THEN NULL
     ELSE (CHOOSE r \in rows : \A q \in rows : q.last_sent <= r.last_sent).last_sent

\* updateAlertEvent(userId, deviceId, eventType) at time t:
\* INSERT ... ON CONFLICT (user_id, device_id, event_type) DO UPDATE SET last_sent
updateAlertEvent_PlainInsert(L, userId, deviceId, eventType, t) ==
  L \cup {[user_id |-> userId, device_id |-> deviceId, event_type |-> eventType,
           last_sent |-> t]}

updateAlertEvent_KeepFirst(L, userId, deviceId, eventType, t) ==
  IF \E r \in L : r.user_id = userId /\ r.device_id = deviceId /\ r.event_type = eventType
    THEN L
    ELSE L \cup {[user_id |-> userId, device_id |-> deviceId, event_type |-> eventType,
                  last_sent |-> t]}

updateAlertEvent(L, userId, deviceId, eventType, t) ==
  LET conflict == {r \in L : r.user_id = userId /\ r.device_id = deviceId
                              /\ r.event_type = eventType}
  IN IF conflict = {}
       THEN L \cup {[user_id |-> userId, device_id |-> deviceId,
                     event_type |-> eventType, last_sent |-> t]}
       ELSE (L \ conflict) \cup {[r EXCEPT !.last_sent = t] : r \in conflict}

\* ------------------------------------------------ notification dispatcher
EventTypes == {"email_down", "email_up"}

\* const eventType = newStatus === 'down' ? 'email_down' : 'email_up'
EventTypeOf_AlwaysDown(newStatus) == "email_down"

EventTypeOf(newStatus) == IF newStatus = "down" THEN "email_down" ELSE "email_up"

\* const minutes = cfg.cooldown_minutes || 30
CooldownMinutes(cfg) ==
  IF cfg.cooldown_minutes # 0 THEN cfg.cooldown_minutes ELSE DefaultCooldown

\* if (last) { ...; if (ageMs < minutes * 60 * 1000) return; }   (t, last in minutes)
InCooldown_OffByOne(cfg, last, t) ==
  last # NULL /\ (t - last) * 60000 <= CooldownMinutes(cfg) * 60 * 1000

InCooldown_Never(cfg, last, t) == FALSE

InCooldown(cfg, last, t) ==
  last # NULL /\ (t - last) * 60000 < CooldownMinutes(cfg) * 60 * 1000

\* Which of the dispatcher's awaited calls succeed (TRUE) or reject (FALSE).
Faults == [cfgRead : BOOLEAN, lastRead : BOOLEAN, send : BOOLEAN, write : BOOLEAN]
NoFaults == [cfgRead |-> TRUE, lastRead |-> TRUE, send |-> TRUE, write |-> TRUE]

AlertOutcome(o, l, m, th) == [outcome |-> o, ledger |-> l, mail |-> m, threw |-> th]

maybeSendEmailAlert_RecordBeforeSend(device, prevStatus, newStatus, t, tbl, L, smtpOk, f) ==
  LET cfg == shouldSendEmail(tbl, device.user_id)
      eventType == EventTypeOf(newStatus)
      last == getLastAlertSent(L, device.user_id, device.id, eventType)
      recorded == updateAlertEvent(L, device.user_id, device.id, eventType, t)
  IN IF isInMaintenance(device, t) THEN AlertOutcome("maintenance", L, FALSE, FALSE)
     ELSE IF ~f.cfgRead THEN AlertOutcome("store error", L, FALSE, TRUE)
     ELSE IF cfg = NoRow THEN AlertOutcome("no config", L, FALSE, FALSE)
     ELSE IF ~f.lastRead THEN AlertOutcome("store error", L, FALSE, TRUE)
     ELSE IF InCooldown(cfg, last, t) THEN AlertOutcome("cooldown", L, FALSE, FALSE)
     ELSE IF prevStatus # "" /\ prevStatus = newStatus
       THEN AlertOutcome("no change", L, FALSE, FALSE)
     ELSE IF ~smtpOk THEN AlertOutcome("smtp not configured", L, FALSE, FALSE)
     ELSE IF ~f.write THEN AlertOutcome("ledger write failed", L, FALSE, FALSE)
     ELSE IF ~f.send THEN AlertOutcome("send failed", recorded, FALSE, FALSE)
     ELSE AlertOutcome("sent", recorded, TRUE, FALSE)

\* maybeSendEmailAlert(device, prevStatus, newStatus) at time t: the ledger it
\* leaves, whether the transport accepted a mail, whether it rejects.
maybeSendEmailAlert(device, prevStatus, newStatus, t, tbl, L, smtpOk, f) ==
  LET cfg == shouldSendEmail(tbl, device.user_id)
      eventType == EventTypeOf(newStatus)
      last == getLastAlertSent(L, device.user_id, device.id, eventType)
  IN IF isInMaintenance(device, t) THEN AlertOutcome("maintenance", L, FALSE, FALSE)
     ELSE IF ~f.cfgRead THEN AlertOutcome("store error", L, FALSE, TRUE)
     ELSE IF cfg = NoRow THEN AlertOutcome("no config", L, FALSE, FALSE)
     ELSE IF ~f.lastRead THEN AlertOutcome("store error", L, FALSE, TRUE)
     ELSE IF InCooldown(cfg, last, t) THEN AlertOutcome("cooldown", L, FALSE, FALSE)
     ELSE IF prevStatus # "" /\ prevStatus = newStatus
       THEN AlertOutcome("no change", L, FALSE, FALSE)
     ELSE IF ~smtpOk THEN AlertOutcome("smtp not configured", L, FALSE, FALSE)
     ELSE IF ~f.send THEN AlertOutcome("send failed", L, FALSE, FALSE)
     ELSE IF ~f.write THEN AlertOutcome("ledger write failed", L, TRUE, FALSE)
     ELSE AlertOutcome("sent",
                       updateAlertEvent(L, device.user_id, device.id, eventType, t),
                       TRUE, FALSE)

\* ----------------------------------------------------------------- tick
\* const newStatus = result.status || 'down'
NewStatus(r) == IF r.status = "" THEN "down" ELSE r.status

\* if (newStatus !== prevStatus) await maybeSendEmailAlert(...)
AlertOnChange_KnownOnly(prevStatus, newStatus) ==
  prevStatus # "unknown" /\ newStatus # prevStatus

AlertOnChange_Always(prevStatus, newStatus) == TRUE

AlertOnChange(prevStatus, newStatus) == newStatus # prevStatus

\* ------------------------------------------------------------ plan limits
\* The values of users.plan ('free' | 'premium') and users.plan_status.
Plans == {"free", "premium"}
PlanStatuses == {"active", "canceled"}

\* normalizePlan(plan)
normalizePlan(plan) == IF plan = "premium" THEN "premium" ELSE "free"

\* isPremiumActiveFromUserRow(userRow, now)
isPremiumActiveFromUserRow(userRow, t) ==
  /\ normalizePlan(userRow.plan) = "premium"
  /\ userRow.plan_status = "active"
  /\ ~(userRow.premium_until # NULL /\ t >= userRow.premium_until)

\* getUserPlanFromDb(pool, userId) at time t: the effective plan of the row.
getUserPlanFromDb(usrs, userId, t) ==
  IF userId \in DOMAIN usrs /\ isPremiumActiveFromUserRow(usrs[userId], t)
    THEN "premium" ELSE "free"

\* requirePremium(req, res, next): whether the request is passed on.
requirePremium(usrs, userId, t) ==
  userId \in DOMAIN usrs /\ isPremiumActiveFromUserRow(usrs[userId], t)

\* PLAN_LIMITS.*.devicesPerProject
DevicesPerProject == 15

\* ------------------------------------------------------------- the model
\* Devices whose own maintenance window the tenant sets in the model.
MaintDevices == {"d1"}
\* The windows the tenant sets: open-ended or closed, starting one minute after Boot.
Windows == {<<Boot + 1, NULL>>, <<Boot + 1, Boot + 1>>}

\* Probe environments of the worker specification.
WorkerEnvs == ProbeEnvs({5}, {200, 503}, {"response"})

NewDevice(url, port, interval) ==
  [user_id |-> UserId, store_id |-> StoreId, url |-> url, port |-> port,
   ping_interval |-> interval, status |-> "unknown", packet_loss |-> NULL,
   last_check |-> NULL, maintenance_start |-> NULL, maintenance_end |-> NULL]

\* The alerts table: no row, or the tenant's one email row.
Cfg(e, c) == {[user_id |-> UserId, type |-> "email", enabled |-> e, cooldown_minutes |-> c]}
AlertTables == {{}} \cup {Cfg(e, c) : e \in BOOLEAN, c \in {1, MaxCooldown}}

\* The worker's configurations (alerts table, SMTP configured).  The SMTP
\* variables are read only after an enabled row was found, so an unconfigured
\* SMTP is paired with an enabled row only.
Configs == {<<{}, TRUE>>, <<Cfg(FALSE, MaxCooldown), TRUE>>, <<Cfg(TRUE, 1), TRUE>>,
            <<Cfg(TRUE, MaxCooldown), TRUE>>, <<Cfg(TRUE, 1), FALSE>>}

\* A tenant on the premium plan, no expiry.
PremiumTenant ==
  [u \in {UserId} |-> [plan |-> "premium", plan_status |-> "active", premium_until |-> NULL]]

NoMails == [k \in DeviceIds \X EventTypes |-> [last |-> NULL, prev |-> NULL]]

\* The fleet: d1 is an HTTP check every 60 s; d2, every 180 s, is a bare host
\* (ping with TCP fallback) or carries a URL that lib.get rejects.
Fleets ==
  {[d \in DeviceIds |-> IF d = "d1" THEN NewDevice("http://x", 0, 60)
                        ELSE NewDevice(u, 0, 180)] : u \in {"", "not a url"}}

NoStoreWindows ==
  stores = [s \in {StoreId} |-> [maintenance_start |-> NULL, maintenance_end |-> NULL]]

\* The worker before its first loop iteration.
WorkerAtRest ==
  /\ pc = "cleanup"
  /\ due = <<>>
  /\ result = NoResult
  /\ mails = NoMails
  /\ lastAlert = NoAlert
  /\ tenantOps = 0

\* The worker starts on a store holding freshly created devices.
Init ==
  /\ now = Boot
  /\ devices \in Fleets
  /\ NoStoreWindows
  /\ \E c \in Configs : alerts = c[1] /\ smtp = c[2]
  /\ ledger = {}
  /\ history = <<>>
  /\ WorkerAtRest
  /\ lastProbe = NoProbe
  /\ lastDue = NoDue
  /\ lastUpsert = NoUpsert
  /\ lastMaint = NoMaint
  /\ scroll = NoScroll
  /\ users = PremiumTenant
  /\ limiter = NoLimiter

\* The catch in main(): the tick is over, the loop sleeps.
Abandon_Exit == pc' = "exit" /\ due' = <<>> /\ result' = NoResult

Abandon == pc' = "sleep" /\ due' = <<>> /\ result' = NoResult

\* A minute boundary passes while the worker is in one of its long awaits
\* (a probe, the 20 s sleep).
Advance ==
  /\ now < Boot + MaxTime
  /\ pc \in {"probe", "sleep"}
  /\ now' = now + 1
  /\ UNCHANGED <<devices, stores, alerts, ledger, history, smtp, pc, due, result,
                 mails, lastAlert, tenantOps, lastProbe, lastDue, lastUpsert, lastMaint, scroll, users, limiter>>

\* main(): await retentionCleanup()
RetentionCleanupStep(ok) ==
  /\ pc = "cleanup"
  /\ IF ok THEN /\ history' = retentionCleanup(history, now)
                /\ pc' = "getDue"
                /\ UNCHANGED <<due, result>>
           ELSE /\ Abandon
                /\ UNCHANGED history
  /\ lastAlert' = NoAlert
  /\ UNCHANGED <<now, devices, stores, alerts, ledger, smtp, mails, tenantOps,
                 lastProbe, lastDue, lastUpsert, lastMaint, scroll, users, limiter>>

RetentionCleanup == \E ok \in BOOLEAN : RetentionCleanupStep(ok)

\* tick(): const due = await getDueDevices(); if (!due.length) return;
GetDueStep(ok) ==
  /\ pc = "getDue"
  /\ IF ok THEN \E rows \in getDueDevices(devices, stores, now) :
                  /\ due' = rows
                  /\ pc' = IF rows = <<>> THEN "sleep" ELSE "probe"
                  /\ UNCHANGED result
           ELSE Abandon
  /\ UNCHANGED <<now, devices, stores, alerts, ledger, history, smtp, mails, lastAlert,
                 tenantOps, lastProbe, lastDue, lastUpsert, lastMaint, scroll, users, limiter>>

GetDue == \E ok \in BOOLEAN : GetDueStep(ok)

\* tick(): const result = await executeDeviceCheck(device)
Probe ==
  /\ pc = "probe"
  /\ \E env \in WorkerEnvs :
       LET out == executeDeviceCheck(Head(due), env)
       IN IF out.threw THEN Abandon
          ELSE /\ result' = out.result
               /\ pc' = "update"
               /\ UNCHANGED due
  /\ UNCHANGED <<now, devices, stores, alerts, ledger, history, smtp, mails, lastAlert,
                 tenantOps, lastProbe, lastDue, lastUpsert, lastMaint, scroll, users, limiter>>

\* tick(): await updateDevice(device.id, device.user_id, newStatus, result.packet_loss)
UpdateDeviceStep(ok) ==
  /\ pc = "update"
  /\ IF ok THEN /\ devices' = updateDevice(devices, Head(due).id, Head(due).user_id,
                                           NewStatus(result), result.packet_loss, now)
                /\ pc' = "history"
                /\ UNCHANGED <<due, result>>
           ELSE /\ Abandon
                /\ UNCHANGED devices
  /\ UNCHANGED <<now, stores, alerts, ledger, history, smtp, mails, lastAlert,
                 tenantOps, lastProbe, lastDue, lastUpsert, lastMaint, scroll, users, limiter>>

UpdateDevice == \E ok \in BOOLEAN : UpdateDeviceStep(ok)

\* tick(): await writeHistory(...); then the test newStatus !== prevStatus
WriteHistoryStep(ok) ==
  /\ pc = "history"
  /\ IF ok /\ Head(due).id \in DOMAIN devices
           THEN /\ history' = writeHistory(history, Head(due).id, NewStatus(result),
                                           result.packet_loss, result.latency, now)
                /\ pc' = IF AlertOnChange(Head(due).status, NewStatus(result))
                           THEN "alert" ELSE "pace"
                /\ UNCHANGED <<due, result>>
           ELSE /\ Abandon
                /\ UNCHANGED history
  /\ UNCHANGED <<now, devices, stores, alerts, ledger, smtp, mails, lastAlert,
                 tenantOps, lastProbe, lastDue, lastUpsert, lastMaint, scroll, users, limiter>>

WriteHistory == \E ok \in BOOLEAN : WriteHistoryStep(ok)

\* tick(): await maybeSendEmailAlert(device, prevStatus, newStatus)
MaybeSendEmailAlert_StoredStatus ==
  /\ pc = "alert"
  /\ \E f \in {g \in Faults : Head(due).id \in DOMAIN devices \/ ~g.write} :
       LET device == Head(due)
           newStatus == NewStatus(result)
           key == <<device.id, EventTypeOf(newStatus)>>
           out == maybeSendEmailAlert(device, devices[device.id].status, newStatus, now,
                                      alerts, ledger, smtp, f)
       IN /\ ledger' = out.ledger
          /\ mails' = IF out.mail
                        THEN [mails EXCEPT ![key] = [last |-> now, prev |-> mails[key].last]]
                        ELSE mails
          /\ lastAlert' = [device |-> device, prevStatus |-> devices[device.id].status,
                           newStatus |-> newStatus, at |-> now,
                           outcome |-> out.outcome, mail |-> out.mail,
                           threw |-> out.threw, ledgerBefore |-> ledger]
          /\ IF out.threw THEN Abandon
             ELSE pc' = "pace" /\ UNCHANGED <<due, result>>
  /\ UNCHANGED <<now, devices, stores, alerts, history, smtp, tenantOps, lastProbe, lastDue, lastUpsert, lastMaint, scroll, users, limiter>>

MaybeSendEmailAlert ==
  /\ pc = "alert"
  /\ \E f \in {g \in Faults : Head(due).id \in DOMAIN devices \/ ~g.write} :
       LET device == Head(due)
           newStatus == NewStatus(result)
           key == <<device.id, EventTypeOf(newStatus)>>
           out == maybeSendEmailAlert(device, device.status, newStatus, now,
                                      alerts, ledger, smtp, f)
       IN /\ ledger' = out.ledger
          /\ mails' = IF out.mail
                        THEN [mails EXCEPT ![key] = [last |-> now, prev |-> mails[key].last]]
                        ELSE mails
          /\ lastAlert' = [device |-> device, prevStatus |-> device.status,
                           newStatus |-> newStatus, at |-> now,
                           outcome |-> out.outcome, mail |-> out.mail,
                           threw |-> out.threw, ledgerBefore |-> ledger]
          /\ IF out.threw THEN Abandon
             ELSE pc' = "pace" /\ UNCHANGED <<due, result>>
  /\ UNCHANGED <<now, devices, stores, alerts, history, smtp, tenantOps, lastProbe, lastDue, lastUpsert, lastMaint, scroll, users, limiter>>

\* tick(): await sleep(150), then the next device of the due set
Pace ==
  /\ pc = "pace"
  /\ due' = Tail(due)
  /\ result' = NoResult
  /\ lastAlert' = NoAlert
  /\ pc' = IF Tail(due) = <<>> THEN "sleep" ELSE "probe"
  /\ UNCHANGED <<now, devices, stores, alerts, ledger, history, smtp, mails,
                 tenantOps, lastProbe, lastDue, lastUpsert, lastMaint, scroll, users, limiter>>

\* main(): await sleep(20000), then the next iteration
Sleep ==
  /\ pc = "sleep"
  /\ pc' = "cleanup"
  /\ UNCHANGED <<now, devices, stores, alerts, ledger, history, smtp, due, result,
                 mails, lastAlert, tenantOps, lastProbe, lastDue, lastUpsert, lastMaint, scroll, users, limiter>>

\* POST /api/maintenance/device/:deviceId
SetDeviceMaintenance ==
  /\ tenantOps < MaxTenantOps
  /\ requirePremium(users, UserId, now)
  /\ \E d \in MaintDevices \cap DOMAIN devices, w \in Windows :
       devices' = [devices EXCEPT ![d].maintenance_start = w[1],
                                  ![d].maintenance_end = w[2]]
  /\ tenantOps' = tenantOps + 1
  /\ UNCHANGED <<now, stores, alerts, ledger, history, smtp, pc, due, result,
                 mails, lastAlert, lastProbe, lastDue, lastUpsert, lastMaint, scroll, users, limiter>>

\* DELETE /api/maintenance/device/:deviceId
ClearDeviceMaintenance ==
  /\ tenantOps < MaxTenantOps
  /\ requirePremium(users, UserId, now)
  /\ \E d \in MaintDevices \cap DOMAIN devices :
       devices' = [devices EXCEPT ![d].maintenance_start = NULL,
                                  ![d].maintenance_end = NULL]
  /\ tenantOps' = tenantOps + 1
  /\ UNCHANGED <<now, stores, alerts, ledger, history, smtp, pc, due, result,
                 mails, lastAlert, lastProbe, lastDue, lastUpsert, lastMaint, scroll, users, limiter>>

\* POST /api/maintenance/store/:storeId
SetStoreMaintenance ==
  /\ tenantOps < MaxTenantOps
  /\ requirePremium(users, UserId, now)
  /\ \E s \in DOMAIN stores, w \in Windows :
       stores' = [stores EXCEPT ![s].maintenance_start = w[1],
                                ![s].maintenance_end = w[2]]
  /\ tenantOps' = tenantOps + 1
  /\ UNCHANGED <<now, devices, alerts, ledger, history, smtp, pc, due, result,
                 mails, lastAlert, lastProbe, lastDue, lastUpsert, lastMaint, scroll, users, limiter>>

\* DELETE /api/maintenance/store/:storeId
ClearStoreMaintenance ==
  /\ tenantOps < MaxTenantOps
  /\ requirePremium(users, UserId, now)
  /\ \E s \in DOMAIN stores :
       stores' = [stores EXCEPT ![s].maintenance_start = NULL,
                                ![s].maintenance_end = NULL]
  /\ tenantOps' = tenantOps + 1
  /\ UNCHANGED <<now, devices, alerts, ledger, history, smtp, pc, due, result,
                 mails, lastAlert, lastProbe, lastDue, lastUpsert, lastMaint, scroll, users, limiter>>

\* The (url, port) pairs of the tenant's create and edit requests
\* (port || null, url || null).
Targets == {<<"", 8080>>, <<"http://x", 0>>}
\* The device the tenant adds in the model.
Creatable == {"d2"}

\* POST /api/projects/:projectId/devices: the devices table after the request
\* (unchanged when the project is not the tenant's or the plan limit is reached).
createDevice_SwappedIntervals(devs, strs, usrs, d, target, t) ==
  IF StoreId \notin DOMAIN strs
       \/ Cardinality({e \in DOMAIN devs : devs[e].store_id = StoreId}) >= DevicesPerProject
    THEN devs
    ELSE LET pingInterval == IF getUserPlanFromDb(usrs, UserId, t) = "premium" THEN 7200 ELSE 900
         IN [e \in DOMAIN devs \cup {d} |->
               IF e = d THEN NewDevice(target[1], target[2], pingInterval) ELSE devs[e]]

createDevice(devs, strs, usrs, d, target, t) ==
  IF StoreId \notin DOMAIN strs
       \/ Cardinality({e \in DOMAIN devs : devs[e].store_id = StoreId}) >= DevicesPerProject
    THEN devs
    ELSE LET pingInterval == IF getUserPlanFromDb(usrs, UserId, t) = "premium" THEN 900 ELSE 7200
         IN [e \in DOMAIN devs \cup {d} |->
               IF e = d THEN NewDevice(target[1], target[2], pingInterval) ELSE devs[e]]

\* PUT /api/devices/:deviceId: SET name, type, ip, port, url, notes
editDevice_ResetsState(devs, d, userId, target) ==
  [e \in DOMAIN devs |->
     IF e = d /\ devs[e].user_id = userId
       THEN [devs[e] EXCEPT !.url = target[1], !.port = target[2],
                            !.status = "unknown", !.last_check = NULL]
       ELSE devs[e]]

editDevice(devs, d, userId, target) ==
  [e \in DOMAIN devs |->
     IF e = d /\ devs[e].user_id = userId
       THEN [devs[e] EXCEPT !.url = target[1], !.port = target[2]]
       ELSE devs[e]]

\* POST /api/devices/:deviceId/test-now: SET last_check = now() - interval '365 days'
testNow(devs, d, userId, t) ==
  [e \in DOMAIN devs |->
     IF e = d /\ devs[e].user_id = userId
       THEN [devs[e] EXCEPT !.last_check = t - 365 * 24 * 60]
       ELSE devs[e]]

\* POST /api/projects/:projectId/devices
CreateDevice ==
  /\ tenantOps < MaxTenantOps
  /\ \E d \in Creatable \ DOMAIN devices, target \in Targets :
       devices' = createDevice(devices, stores, users, d, target, now)
  /\ tenantOps' = tenantOps + 1
  /\ UNCHANGED <<now, stores, alerts, ledger, history, smtp, pc, due, result,
                 mails, lastAlert, lastProbe, lastDue, lastUpsert, lastMaint, scroll, users, limiter>>

\* PUT /api/devices/:deviceId
EditDevice ==
  /\ tenantOps < MaxTenantOps
  /\ \E d \in MaintDevices \cap DOMAIN devices, target \in Targets :
       devices' = editDevice(devices, d, UserId, target)
  /\ tenantOps' = tenantOps + 1
  /\ UNCHANGED <<now, stores, alerts, ledger, history, smtp, pc, due, result,
                 mails, lastAlert, lastProbe, lastDue, lastUpsert, lastMaint, scroll, users, limiter>>

\* DELETE /api/devices/:deviceId; device_history.device_id and
\* alert_events.device_id are declared ON DELETE CASCADE.
DeleteDevice ==
  /\ tenantOps < MaxTenantOps
  /\ \E d \in MaintDevices \cap DOMAIN devices :
       /\ devices' = [e \in DOMAIN devices \ {d} |-> devices[e]]
       /\ history' = SelectSeq(history, LAMBDA r : r.device_id # d)
       /\ ledger' = {r \in ledger : r.device_id # d}
  /\ tenantOps' = tenantOps + 1
  /\ UNCHANGED <<now, stores, alerts, smtp, pc, due, result,
                 mails, lastAlert, lastProbe, lastDue, lastUpsert, lastMaint, scroll, users, limiter>>

\* POST /api/devices/:deviceId/test-now
TestNow ==
  /\ tenantOps < MaxTenantOps
  /\ requirePremium(users, UserId, now)
  /\ \E d \in MaintDevices \cap DOMAIN devices :
       devices' = testNow(devices, d, UserId, now)
  /\ tenantOps' = tenantOps + 1
  /\ UNCHANGED <<now, stores, alerts, ledger, history, smtp, pc, due, result,
                 mails, lastAlert, lastProbe, lastDue, lastUpsert, lastMaint, scroll, users, limiter>>

\* POST /api/billing/simulate-upgrade: UPDATE users SET plan=$1
SimulateUpgrade ==
  /\ tenantOps < MaxTenantOps
  /\ \E plan \in Plans : users' = [users EXCEPT ![UserId].plan = plan]
  /\ tenantOps' = tenantOps + 1
  /\ UNCHANGED <<now, devices, stores, alerts, ledger, history, smtp, pc, due, result,
                 mails, lastAlert, lastProbe, lastDue, lastUpsert, lastMaint, scroll, limiter>>

Worker ==
  \/ RetentionCleanup
  \/ GetDue
  \/ Probe
  \/ UpdateDevice
  \/ WriteHistory
  \/ MaybeSendEmailAlert
  \/ Pace
  \/ Sleep

Tenant ==
  \/ SetDeviceMaintenance
  \/ ClearDeviceMaintenance
  \/ SetStoreMaintenance
  \/ ClearStoreMaintenance

Next == Advance \/ Worker \/ Tenant

Spec == Init /\ [][Next]_vars

\* The fair loop: main() never stops iterating, every await of the worker
\* returns, a store call that is retried for ever does not fail for ever, and
\* the clock goes on.
Fairness ==
  /\ WF_vars(Worker)
  /\ SF_vars(RetentionCleanupStep(TRUE))
  /\ SF_vars(GetDueStep(TRUE))
  /\ SF_vars(UpdateDeviceStep(TRUE))
  /\ SF_vars(Advance)

FairSpec == Init /\ [][Next]_vars /\ Fairness

\* The fair loop of the worker alone, no tenant request arriving.
FairWorkerSpec == Init /\ [][Advance \/ Worker]_vars /\ Fairness

\* ------------------------------------------------ tenant specification
\* The worker loop next to every tenant route that writes devices, stores
\* or the plan.
Account ==
  \/ CreateDevice
  \/ EditDevice
  \/ DeleteDevice
  \/ TestNow
  \/ SimulateUpgrade

\* The tenant's row: on the free plan, on premium, on a premium that lapses
\* one minute after Boot, or on a canceled premium.
UserRows ==
  {[plan |-> "free", plan_status |-> "active", premium_until |-> NULL],
   [plan |-> "premium", plan_status |-> "active", premium_until |-> NULL],
   [plan |-> "premium", plan_status |-> "active", premium_until |-> Boot + 1],
   [plan |-> "premium", plan_status |-> "canceled", premium_until |-> NULL]}

\* d1 alone or d1 and d2, never checked; d1 was created on premium, d2 on free.
TenantFleets ==
  {[d \in D |-> IF d = "d1" THEN NewDevice("http://x", 0, 900) ELSE NewDevice("", 0, 7200)] :
     D \in {{"d1"}, {"d1", "d2"}}}

TenantInit ==
  /\ now = Boot
  /\ devices \in TenantFleets
  /\ NoStoreWindows
  /\ alerts = Cfg(TRUE, 1)
  /\ smtp = TRUE
  /\ ledger = {}
  /\ history = <<>>
  /\ WorkerAtRest
  /\ lastProbe = NoProbe
  /\ lastDue = NoDue
  /\ lastUpsert = NoUpsert
  /\ lastMaint = NoMaint
  /\ scroll = NoScroll
  /\ users \in [{UserId} -> UserRows]
  /\ limiter = NoLimiter

SpecTenant == TenantInit /\ [][Advance \/ Worker \/ Tenant \/ Account]_vars

\* ------------------------------------------------- probe specification
\* executeDeviceCheck applied to every device configuration under every
\* environment.
ProbeDevices ==
  {[ip |-> "host", url |-> u, port |-> p] : u \in Urls \cup {""}, p \in Ports \cup {0}}

ProbeInit ==
  /\ lastProbe \in [device : ProbeDevices,
                    env : ProbeEnvs(Latencies, StatusCodes, HttpEvents),
                    called : {FALSE}]
  /\ now = Boot
  /\ devices = [d \in DeviceIds |-> NewDevice("", 0, 60)]
  /\ NoStoreWindows
  /\ alerts = {}
  /\ smtp = FALSE
  /\ ledger = {}
  /\ history = <<>>
  /\ WorkerAtRest
  /\ lastDue = NoDue
  /\ lastUpsert = NoUpsert
  /\ lastMaint = NoMaint
  /\ scroll = NoScroll
  /\ users = PremiumTenant
  /\ limiter = NoLimiter

CallExecuteDeviceCheck ==
  /\ ~lastProbe.called
  /\ lastProbe' = [device |-> lastProbe.device, env |-> lastProbe.env, called |-> TRUE,
                   out |-> executeDeviceCheck(lastProbe.device, lastProbe.env)]
  /\ UNCHANGED <<now, devices, stores, alerts, ledger, history, smtp, pc, due, result,
                 mails, lastAlert, tenantOps, lastDue, lastUpsert, lastMaint, scroll, users, limiter>>

SpecProbe == ProbeInit /\ [][CallExecuteDeviceCheck]_vars

\* ----------------------------------------------- due-set specification
\* getDueDevices applied to every table of DueIds whose devices were never
\* checked or were checked at some instant up to now.
DueIds == {"d1", "d2", "d3"}

DueTables(t) ==
  [DueIds -> {[NewDevice("", 0, i) EXCEPT !.last_check = c] :
                i \in {60, 120}, c \in {NULL} \cup {x \in Times : x <= t}}]

DueInit ==
  /\ now \in Times
  /\ devices \in DueTables(now)
  /\ NoStoreWindows
  /\ alerts = {}
  /\ smtp = FALSE
  /\ ledger = {}
  /\ history = <<>>
  /\ WorkerAtRest
  /\ lastProbe = NoProbe
  /\ lastDue = NoDue
  /\ lastUpsert = NoUpsert
  /\ lastMaint = NoMaint
  /\ scroll = NoScroll
  /\ users = PremiumTenant
  /\ limiter = NoLimiter

CallGetDueDevices ==
  /\ lastDue = NoDue
  /\ \E rows \in getDueDevices(devices, stores, now) :
       lastDue' = [rows |-> rows, before |-> <<devices, stores, alerts, ledger, history>>]
  /\ UNCHANGED <<now, devices, stores, alerts, ledger, history, smtp, pc, due, result,
                 mails, lastAlert, tenantOps, lastProbe, lastUpsert, lastMaint, scroll, users, limiter>>

SpecDue == DueInit /\ [][CallGetDueDevices]_vars

\* ------------------------------------------------- ledger specification
\* updateAlertEvent called in any sequence, for any key, as time passes.
LedgerInit ==
  /\ now = Boot
  /\ devices = [d \in DeviceIds |-> NewDevice("", 0, 60)]
  /\ NoStoreWindows
  /\ alerts = {}
  /\ smtp = FALSE
  /\ ledger = {}
  /\ history = <<>>
  /\ WorkerAtRest
  /\ lastProbe = NoProbe
  /\ lastDue = NoDue
  /\ lastUpsert = NoUpsert
  /\ lastMaint = NoMaint
  /\ scroll = NoScroll
  /\ users = PremiumTenant
  /\ limiter = NoLimiter

CallUpdateAlertEvent ==
  /\ \E d \in DeviceIds, e \in EventTypes :
       /\ ledger' = updateAlertEvent(ledger, devices[d].user_id, d, e, now)
       /\ lastUpsert' = [user_id |-> devices[d].user_id, device_id |-> d, event_type |-> e,
                         at |-> now, before |-> ledger]
  /\ UNCHANGED <<now, devices, stores, alerts, history, smtp, pc, due, result,
                 mails, lastAlert, tenantOps, lastProbe, lastDue, lastMaint, scroll, users, limiter>>

LedgerClock ==
  /\ now < Boot + MaxTime
  /\ now' = now + 1
  /\ UNCHANGED <<devices, stores, alerts, ledger, history, smtp, pc, due, result,
                 mails, lastAlert, tenantOps, lastProbe, lastDue, lastUpsert, lastMaint, scroll, users, limiter>>

SpecLedger == LedgerInit /\ [][CallUpdateAlertEvent \/ LedgerClock]_vars

\* --------------------------------------------- dispatcher specification
\* maybeSendEmailAlert called once, as tick calls it (the new status differs
\* from the fetched one, the device row and the history row are written), on
\* every ledger, alert configuration and pair of maintenance windows.
Transitions == {<<"unknown", "up">>, <<"unknown", "down">>, <<"up", "down">>, <<"down", "up">>}

ResultOf(status) ==
  [status |-> status, latency |-> 5, packet_loss |-> IF status = "up" THEN 0 ELSE 100,
   detail |-> [statusCode |-> IF status = "up" THEN 200 ELSE 503]]

\* The ledgers holding at most one row per key, none sent after t.
Ledgers(t) ==
  {{[user_id |-> UserId, device_id |-> k[1], event_type |-> k[2], last_sent |-> f[k]] :
       k \in {q \in DeviceIds \X EventTypes : f[q] # NULL}} :
     f \in [DeviceIds \X EventTypes -> {NULL} \cup {x \in Times : x <= t}]}

AlertInit ==
  /\ now \in Times
  /\ alerts \in AlertTables
  /\ smtp \in BOOLEAN
  /\ ledger \in Ledgers(now)
  /\ \E tr \in Transitions, sw \in Windows \cup {<<NULL, NULL>>},
        dw \in Windows \cup {<<NULL, NULL>>} :
       /\ stores = [s \in {StoreId} |-> [maintenance_start |-> sw[1],
                                         maintenance_end |-> sw[2]]]
       /\ devices = [d \in DeviceIds |->
                       IF d = "d1"
                         THEN [NewDevice("http://x", 0, 60) EXCEPT
                                 !.status = tr[2],
                                 !.packet_loss = ResultOf(tr[2]).packet_loss,
                                 !.last_check = now,
                                 !.maintenance_start = dw[1], !.maintenance_end = dw[2]]
                         ELSE NewDevice("", 0, 180)]
       /\ due = <<[JoinedRow(devices, stores, "d1") EXCEPT
                     !.status = tr[1], !.packet_loss = NULL, !.last_check = NULL]>>
       /\ result = ResultOf(tr[2])
       /\ history = writeHistory(<<>>, "d1", tr[2], ResultOf(tr[2]).packet_loss, 5, now)
  /\ pc = "alert"
  /\ mails = NoMails
  /\ lastAlert = NoAlert
  /\ tenantOps = 0
  /\ lastProbe = NoProbe
  /\ lastDue = NoDue
  /\ lastUpsert = NoUpsert
  /\ lastMaint = NoMaint
  /\ scroll = NoScroll
  /\ users = PremiumTenant
  /\ limiter = NoLimiter

SpecAlert == AlertInit /\ [][MaybeSendEmailAlert]_vars

\* ---------------------------------------------- retention specification
\* One pruning run on a history table whose samples lie around the horizon.
SampleTimes == {Boot - 90 * 24 * 60 - 1, Boot - 90 * 24 * 60, Boot - 90 * 24 * 60 + 1, Boot}

\* The history tables of MaxSamples rows, inserted in the order of their timestamps.
Histories ==
  {h \in [1..MaxSamples -> [device_id : DeviceIds, status : {"up"}, packet_loss : {0},
                            latency : {5}, timestamp : SampleTimes]] :
     \A i \in 1..(MaxSamples - 1) : h[i].timestamp <= h[i + 1].timestamp}

RetentionInit ==
  /\ now \in Times
  /\ devices \in Fleets
  /\ NoStoreWindows
  /\ alerts \in {Cfg(TRUE, 1), Cfg(TRUE, MaxCooldown)}
  /\ smtp = TRUE
  /\ ledger \in Ledgers(now)
  /\ history \in Histories
  /\ WorkerAtRest
  /\ lastProbe = NoProbe
  /\ lastDue = NoDue
  /\ lastUpsert = NoUpsert
  /\ lastMaint = NoMaint
  /\ scroll = NoScroll
  /\ users = PremiumTenant
  /\ limiter = NoLimiter

SpecRetention == RetentionInit /\ [][RetentionCleanup]_vars

\* -------------------------------------------- maintenance specification
\* isInMaintenance applied once to every fetched row whose four window fields
\* are null or an instant of the model, at every instant.
MaintInit ==
  /\ lastMaint \in [device : [maintenance_start : Times \cup {NULL},
                              maintenance_end : Times \cup {NULL},
                              store_maintenance_start : Times \cup {NULL},
                              store_maintenance_end : Times \cup {NULL}],
                    at : Times, called : {FALSE}]
  /\ now = Boot
  /\ devices = [d \in DeviceIds |-> NewDevice("", 0, 60)]
  /\ NoStoreWindows
  /\ alerts = {}
  /\ smtp = FALSE
  /\ ledger = {}
  /\ history = <<>>
  /\ WorkerAtRest
  /\ lastProbe = NoProbe
  /\ lastDue = NoDue
  /\ lastUpsert = NoUpsert
  /\ scroll = NoScroll
  /\ users = PremiumTenant
  /\ limiter = NoLimiter

CallIsInMaintenance ==
  /\ ~lastMaint.called
  /\ lastMaint' = [device |-> lastMaint.device, at |-> lastMaint.at, called |-> TRUE,
                   out |-> isInMaintenance(lastMaint.device, lastMaint.at)]
  /\ UNCHANGED <<now, devices, stores, alerts, ledger, history, smtp, pc, due, result,
                 mails, lastAlert, tenantOps, lastProbe, lastDue, lastUpsert, scroll, users, limiter>>

SpecMaint == MaintInit /\ [][CallIsInMaintenance]_vars

\* -------------------------------------------- scroll-lock specification
\* public/app/scroll-lock.js holds two definitions of createScrollLock: the
\* plain function (lock1, unlock1 below) and the factory of the module
\* wrapper, which is the one finally exported (lock, unlock below).
ScrollYs == {0, 150, 320}

\* `-${y}px`
NegPx(y) == IF y = 0 THEN "-0px" ELSE IF y = 150 THEN "-150px" ELSE "-320px"

\* a || b, for a number that may be undefined (NULL)
JsOr(a, b) == IF a = NULL \/ a = 0 THEN b ELSE a

\* win.scrollTo(0, y)
scrollTo(win, y) == [scrollY |-> IF win.scrollY = NULL THEN NULL ELSE y, pageYOffset |-> y]

Called(closure, body, win, calls) ==
  [closure |-> closure, body |-> body, win |-> win, calls |-> calls]

\* first definition: let lockCount = 0, scrollY = 0, prevOverflow = '', ...
Closure1 ==
  [lockCount |-> 0, scrollY |-> 0, prevOverflow |-> "", prevPosition |-> "",
   prevTop |-> "", prevWidth |-> ""]

lock1(c, body, win) ==
  IF c.lockCount + 1 > 1 THEN Called([c EXCEPT !.lockCount = @ + 1], body, win, <<>>)
  ELSE LET y == JsOr(win.scrollY, JsOr(win.pageYOffset, 0))
       IN Called([lockCount |-> 1, scrollY |-> y,
                  prevOverflow |-> body.overflow, prevPosition |-> body.position,
                  prevTop |-> body.top, prevWidth |-> body.width],
                 [overflow |-> "hidden", position |-> "fixed", top |-> NegPx(y),
                  width |-> "100%"],
                 win, <<>>)

unlock1(c, body, win) ==
  IF c.lockCount = 0 THEN Called(c, body, win, <<>>)
  ELSE IF c.lockCount - 1 > 0 THEN Called([c EXCEPT !.lockCount = @ - 1], body, win, <<>>)
  ELSE Called([c EXCEPT !.lockCount = 0],
              [overflow |-> c.prevOverflow, position |-> c.prevPosition,
               top |-> c.prevTop, width |-> c.prevWidth],
              scrollTo(win, c.scrollY), <<c.scrollY>>)

\* second definition: let lockDepth = 0, savedScrollY = 0, savedStyles = null
NoStyles == [none |-> TRUE]
Closure2 == [lockDepth |-> 0, savedScrollY |-> 0, savedStyles |-> NoStyles]

lock(c, body, win) ==
  IF c.lockDepth + 1 > 1 THEN Called([c EXCEPT !.lockDepth = @ + 1], body, win, <<>>)
  ELSE LET y == JsOr(win.scrollY, JsOr(win.pageYOffset, 0))
       IN Called([lockDepth |-> 1, savedScrollY |-> y,
                  savedStyles |-> [position |-> body.position, top |-> body.top,
                                   width |-> body.width]],
                 [body EXCEPT !.position = "fixed", !.top = NegPx(y), !.width = "100%"],
                 win, <<>>)

unlock_NoNesting(c, body, win) ==
  IF c.lockDepth = 0 THEN Called(c, body, win, <<>>)
  ELSE Called([c EXCEPT !.lockDepth = @ - 1],
              [body EXCEPT !.position = IF c.savedStyles = NoStyles THEN "" ELSE c.savedStyles.position,
                           !.top = IF c.savedStyles = NoStyles THEN "" ELSE c.savedStyles.top,
                           !.width = IF c.savedStyles = NoStyles THEN "" ELSE c.savedStyles.width],
              scrollTo(win, c.savedScrollY), <<c.savedScrollY>>)

unlock(c, body, win) ==
  IF c.lockDepth = 0 THEN Called(c, body, win, <<>>)
  ELSE IF c.lockDepth - 1 > 0 THEN Called([c EXCEPT !.lockDepth = @ - 1], body, win, <<>>)
  ELSE Called([c EXCEPT !.lockDepth = 0, !.savedStyles = NoStyles],
              [body EXCEPT !.position = IF c.savedStyles = NoStyles THEN "" ELSE c.savedStyles.position,
                           !.top = IF c.savedStyles = NoStyles THEN "" ELSE c.savedStyles.top,
                           !.width = IF c.savedStyles = NoStyles THEN "" ELSE c.savedStyles.width],
              scrollTo(win, c.savedScrollY), <<c.savedScrollY>>)

\* The page's own body styles, and the window at some scroll position, in a
\* browser with or without window.scrollY.
BodyStyles ==
  {[overflow |-> "", position |-> "", top |-> "", width |-> ""],
   [overflow |-> "auto", position |-> "relative", top |-> "10px", width |-> "50%"]}
Windows2 == {[scrollY |-> sy, pageYOffset |-> y] : sy \in {NULL} \cup ScrollYs, y \in ScrollYs}
Wins == {w \in Windows2 : w.scrollY \in {NULL, w.pageYOffset}}

Depth(s) == IF s.impl = 1 THEN s.closure.lockCount ELSE s.closure.lockDepth

\* Ghost fields of scroll: outstanding counts lock() calls not yet matched by
\* an unlock(); outerY and outerBody are the page's scroll position and body
\* styles at the outermost lock(); nested tells whether a lock() was made
\* inside it; last is the last call.
ScrollInit ==
  /\ \E impl \in {1, 2}, b \in BodyStyles, w \in Wins :
       scroll = [impl |-> impl, closure |-> IF impl = 1 THEN Closure1 ELSE Closure2,
                 body |-> b, win |-> w,
                 outstanding |-> 0, outerY |-> 0, outerBody |-> b, nested |-> FALSE,
                 last |-> [op |-> "none", before |-> 0, bodyBefore |-> b, winBefore |-> w,
                           calls |-> <<>>]]
  /\ now = Boot
  /\ devices = [d \in DeviceIds |-> NewDevice("", 0, 60)]
  /\ NoStoreWindows
  /\ alerts = {}
  /\ smtp = FALSE
  /\ ledger = {}
  /\ history = <<>>
  /\ WorkerAtRest
  /\ lastProbe = NoProbe
  /\ lastDue = NoDue
  /\ lastUpsert = NoUpsert
  /\ lastMaint = NoMaint
  /\ users = PremiumTenant
  /\ limiter = NoLimiter

ScrollFrame ==
  UNCHANGED <<now, devices, stores, alerts, ledger, history, smtp, pc, due, result,
              mails, lastAlert, tenantOps, lastProbe, lastDue, lastUpsert, lastMaint, users, limiter>>

Lock ==
  /\ Depth(scroll) < MaxLockDepth
  /\ LET out == IF scroll.impl = 1 THEN lock1(scroll.closure, scroll.body, scroll.win)
                ELSE lock(scroll.closure, scroll.body, scroll.win)
         outer == scroll.outstanding = 0
     IN scroll' = [scroll EXCEPT
                     !.closure = out.closure, !.body = out.body, !.win = out.win,
                     !.outstanding = @ + 1,
                     !.outerY = IF outer THEN scroll.win.pageYOffset ELSE @,
                     !.outerBody = IF outer THEN scroll.body ELSE @,
                     !.nested = IF outer THEN FALSE ELSE TRUE,
                     !.last = [op |-> "lock", before |-> scroll.outstanding,
                               bodyBefore |-> scroll.body, winBefore |-> scroll.win,
                               calls |-> out.calls]]
  /\ ScrollFrame

Unlock ==
  /\ LET out == IF scroll.impl = 1 THEN unlock1(scroll.closure, scroll.body, scroll.win)
                ELSE unlock(scroll.closure, scroll.body, scroll.win)
     IN scroll' = [scroll EXCEPT
                     !.closure = out.closure, !.body = out.body, !.win = out.win,
                     !.outstanding = IF @ > 0 THEN @ - 1 ELSE 0,
                     !.last = [op |-> "unlock", before |-> scroll.outstanding,
                               bodyBefore |-> scroll.body, winBefore |-> scroll.win,
                               calls |-> out.calls]]
  /\ ScrollFrame

\* The page is scrolled (by the user or a script) to another position.
UserScroll ==
  /\ \E y \in ScrollYs \ {scroll.win.pageYOffset} :
       scroll' = [scroll EXCEPT
                    !.win = scrollTo(scroll.win, y),
                    !.last = [op |-> "scroll", before |-> scroll.outstanding,
                              bodyBefore |-> scroll.body, winBefore |-> scroll.win,
                              calls |-> <<>>]]
  /\ ScrollFrame

SpecScroll == ScrollInit /\ [][Lock \/ Unlock \/ UserScroll]_vars

\* ================================================================ claims

\* ---------------------------------------------- rate-limit specification
\* createMemoryRateLimiter({ windowMs, maxRequests, keyFn, message }) and the
\* middleware it returns.  A request is modelled by what the limiter reads of
\* it: its key, keyFn(req), and whether its user is on premium (read by a
\* maxRequests given as a function, as routes.js does).
ClockStep == 500
Keys == {"1.1.1.1:/auth/google", "2.2.2.2:/auth/google"}
Requests == [key : Keys, premium : BOOLEAN]

\* The limiters of the model: maxRequests a number (isFunction FALSE), or a
\* function of the request answering maxPremium for a premium user and
\* maxRequests otherwise.
Limiters ==
  [windowMs : {1000, 1500}, isFunction : {FALSE}, maxRequests : {1, 2}, maxPremium : {2}]
    \cup [windowMs : {1000}, isFunction : {TRUE}, maxRequests : {1}, maxPremium : {2}]

\* typeof maxRequests === 'function' ? maxRequests(req) : maxRequests
MaxOf(cfg, req) ==
  IF cfg.isFunction THEN (IF req.premium THEN cfg.maxPremium ELSE cfg.maxRequests)
  ELSE cfg.maxRequests

\* Math.ceil(ms / 1000) for an integer ms
CeilSeconds(ms) == IF ms >= 0 THEN (ms + 999) \div 1000 ELSE -((-ms) \div 1000)

Max(a, b) == IF a >= b THEN a ELSE b

\* The Map after state.set(key, entry)
MapSet(m, key, entry) == [k \in DOMAIN m \cup {key} |-> IF k = key THEN entry ELSE m[k]]

\* memoryRateLimiter with one entry shared by all keys.
memoryRateLimiter_SharedEntry(cfg, state, req, t) ==
  LET key == CHOOSE k \in Keys : TRUE
      fresh == key \notin DOMAIN state \/ t - state[key].start >= cfg.windowMs
      opened == IF fresh THEN [start |-> t, count |-> 0] ELSE state[key]
      entry == [opened EXCEPT !.count = opened.count + 1]
      max == MaxOf(cfg, req)
  IN IF entry.count > max
       THEN [state |-> MapSet(state, key, entry), next |-> FALSE, status |-> 429,
             retryAfter |-> Max(CeilSeconds(cfg.windowMs - (t - entry.start)), 1)]
       ELSE [state |-> MapSet(state, key, entry), next |-> TRUE, status |-> 200,
             retryAfter |-> NULL]

\* memoryRateLimiter(req, res, next) at time t (Date.now(), milliseconds): the
\* Map it leaves, whether next() was called, the status answered (200 stands
\* for whatever the handlers behind next() answer) and the Retry-After header.
memoryRateLimiter(cfg, state, req, t) ==
  LET key == req.key
      fresh == key \notin DOMAIN state \/ t - state[key].start >= cfg.windowMs
      opened == IF fresh THEN [start |-> t, count |-> 0] ELSE state[key]
      entry == [opened EXCEPT !.count = opened.count + 1]
      max == MaxOf(cfg, req)
  IN IF entry.count > max
       THEN [state |-> MapSet(state, key, entry), next |-> FALSE, status |-> 429,
             retryAfter |-> Max(CeilSeconds(cfg.windowMs - (t - entry.start)), 1)]
       ELSE [state |-> MapSet(state, key, entry), next |-> TRUE, status |-> 200,
             retryAfter |-> NULL]

\* A limiter just created: const state = new Map().  log is the ghost record
\* of the requests of each key, in order.
LimiterInit ==
  /\ limiter \in [cfg : Limiters, state : {<<>>}, clock : {0}, calls : {0},
                  log : {[k \in Keys |-> <<>>]}]
  /\ now = Boot
  /\ devices = [d \in DeviceIds |-> NewDevice("", 0, 60)]
  /\ NoStoreWindows
  /\ alerts = {}
  /\ smtp = FALSE
  /\ ledger = {}
  /\ history = <<>>
  /\ WorkerAtRest
  /\ lastProbe = NoProbe
  /\ lastDue = NoDue
  /\ lastUpsert = NoUpsert
  /\ lastMaint = NoMaint
  /\ scroll = NoScroll
  /\ users = PremiumTenant

LimiterFrame ==
  UNCHANGED <<now, devices, stores, alerts, ledger, history, smtp, pc, due, result,
              mails, lastAlert, tenantOps, lastProbe, lastDue, lastUpsert, lastMaint, scroll, users>>

\* A request arrives at the middleware.
Request ==
  /\ limiter.calls < MaxCalls
  /\ \E req \in Requests :
       LET out == memoryRateLimiter(limiter.cfg, limiter.state, req, limiter.clock)
       IN limiter' = [limiter EXCEPT
            !.state = out.state,
            !.calls = limiter.calls + 1,
            !.log[req.key] = Append(limiter.log[req.key],
                                    [at |-> limiter.clock, max |-> MaxOf(limiter.cfg, req),
                                     next |-> out.next, status |-> out.status,
                                     retryAfter |-> out.retryAfter])]
  /\ LimiterFrame

\* Date.now() moves on between two requests.
ClockTick ==
  /\ limiter.clock < MaxClockSteps * ClockStep
  /\ limiter' = [limiter EXCEPT !.clock = limiter.clock + ClockStep]
  /\ LimiterFrame

SpecLimiter == LimiterInit /\ [][Request \/ ClockTick]_vars

\* ------------------------------------------------------------ C1 .. C5
\* A window as the specification words it: the start is set, t is not before
\* it, and the end is unset or t is not after it.
WindowCovers(start, end, t) == start # NULL /\ start <= t /\ (end = NULL \/ t <= end)

\* The fetched row's device window or its store's window covers t.
Covered(row, t) ==
  \/ WindowCovers(row.maintenance_start, row.maintenance_end, t)
  \/ WindowCovers(row.store_maintenance_start, row.store_maintenance_end, t)

\* The ledger's timestamp for a key, NULL when it holds no row for it.
SentAt(L, deviceId, eventType) ==
  IF \E r \in L : r.user_id = UserId /\ r.device_id = deviceId /\ r.event_type = eventType
    THEN (CHOOSE r \in L : r.user_id = UserId /\ r.device_id = deviceId
                           /\ r.event_type = eventType).last_sent
    ELSE NULL

Direction(status) == IF status = "down" THEN "email_down" ELSE "email_up"

\* The tenant's email alert row is enabled.
Enabled == \E a \in alerts : a.user_id = UserId /\ a.type = "email" /\ a.enabled

\* The cooldown of the tenant's email alert row.
Cooldown == (CHOOSE a \in alerts : a.user_id = UserId /\ a.type = "email").cooldown_minutes

Dispatched == lastAlert # NoAlert

\* The dispatcher's store reads and the mail transport worked.
Working == smtp /\ lastAlert.outcome \notin {"store error", "send failed"}

\* C1: when the device's own window or its store's window covers the time of
\* the dispatch, a status transition in either direction sends no mail and
\* leaves the ledger as it was, whatever the alert configuration, the ledger
\* and the transport.
C1_MaintenanceSilences ==
  (Dispatched /\ Covered(lastAlert.device, lastAlert.at)) =>
    /\ ~lastAlert.mail
    /\ ~lastAlert.threw
    /\ ledger = lastAlert.ledgerBefore

\* Only the store's window covers the dispatch of an up-to-down transition
\* that an enabled configuration, a working transport and an empty ledger
\* would otherwise have mailed.
C1_Witness ==
  /\ Dispatched
  /\ lastAlert.prevStatus = "up" /\ lastAlert.newStatus = "down"
  /\ ~WindowCovers(lastAlert.device.maintenance_start, lastAlert.device.maintenance_end,
                   lastAlert.at)
  /\ WindowCovers(lastAlert.device.store_maintenance_start,
                  lastAlert.device.store_maintenance_end, lastAlert.at)
  /\ Enabled /\ smtp
  /\ lastAlert.ledgerBefore = {}
  /\ ~lastAlert.mail /\ ledger = {}

\* C2: with a down notification recorded at T and a cooldown of C minutes, a
\* further down transition less than C minutes after T sends nothing and
\* leaves the ledger unchanged; one at T + C or later sends a mail when the
\* configuration is enabled, the transport works and no window covers it; and
\* with no ledger row for the key the notification is sent likewise.
C2_CooldownGate ==
  (Dispatched /\ lastAlert.newStatus = "down" /\ alerts # {}) =>
    LET T == SentAt(lastAlert.ledgerBefore, lastAlert.device.id, "email_down")
    IN /\ (T # NULL /\ lastAlert.at - T < Cooldown) =>
            (~lastAlert.mail /\ ledger = lastAlert.ledgerBefore)
       /\ ((T = NULL \/ lastAlert.at - T >= Cooldown)
             /\ Enabled /\ Working /\ ~Covered(lastAlert.device, lastAlert.at)) =>
            lastAlert.mail

\* A down transition one minute short of the cooldown after the recorded down
\* notification, under an enabled configuration and a working transport, is
\* blocked.
C2_Witness ==
  /\ Dispatched /\ lastAlert.newStatus = "down" /\ alerts # {}
  /\ Enabled /\ smtp /\ ~Covered(lastAlert.device, lastAlert.at)
  /\ SentAt(lastAlert.ledgerBefore, lastAlert.device.id, "email_down") # NULL
  /\ lastAlert.at - SentAt(lastAlert.ledgerBefore, lastAlert.device.id, "email_down")
       = Cooldown - 1
  /\ Cooldown > 1
  /\ lastAlert.outcome = "cooldown"
  /\ ~lastAlert.mail /\ ledger = lastAlert.ledgerBefore

\* C3: any two mails the transport accepted for the same (user, device,
\* direction) are at least the tenant's cooldown apart, store and mail calls
\* being allowed to fail at any point.
C3_MailsCooldownApart ==
  \A k \in DOMAIN mails :
    (mails[k].prev # NULL /\ alerts # {}) => mails[k].last - mails[k].prev >= Cooldown

\* C4: the two directions gate independently: a down row in the ledger,
\* however recent, never blocks an up notification, and an up row never blocks
\* a down notification; only the row of the transition's own direction does.
C4_DirectionsIndependent ==
  (Dispatched /\ alerts # {}) =>
    LET own == SentAt(lastAlert.ledgerBefore, lastAlert.device.id,
                      Direction(lastAlert.newStatus))
    IN /\ lastAlert.outcome = "cooldown" =>
            (own # NULL /\ lastAlert.at - own < Cooldown)
       /\ ((own = NULL \/ lastAlert.at - own >= Cooldown)
             /\ Enabled /\ Working /\ ~Covered(lastAlert.device, lastAlert.at)) =>
            lastAlert.mail

\* A down notification recorded in the very minute of a down-to-up transition
\* does not block the up notification, which is sent and recorded beside it.
C4_Witness ==
  /\ Dispatched /\ alerts # {}
  /\ lastAlert.prevStatus = "down" /\ lastAlert.newStatus = "up"
  /\ SentAt(lastAlert.ledgerBefore, lastAlert.device.id, "email_down") = lastAlert.at
  /\ SentAt(lastAlert.ledgerBefore, lastAlert.device.id, "email_up") = NULL
  /\ Cooldown > 1
  /\ lastAlert.mail
  /\ SentAt(ledger, lastAlert.device.id, "email_up") = lastAlert.at
  /\ SentAt(ledger, lastAlert.device.id, "email_down") = lastAlert.at

\* C5: tick invokes the dispatcher only when the check's status differs from
\* the status the device had before the check (the fetched status, which is the
\* stored one until tick overwrites it); a check with the same result sends no
\* mail and leaves the ledger alone.
C5_SameStatusNoDispatch ==
  /\ (pc \in {"probe", "update"} /\ Head(due).id \in DOMAIN devices) =>
       Head(due).status = devices[Head(due).id].status
  /\ pc = "alert" => NewStatus(result) # Head(due).status
  /\ Dispatched => lastAlert.newStatus # lastAlert.prevStatus

\* A device whose last recorded check was up is checked up again: tick has
\* written the row and the history and moved on without the dispatcher.
C5_Witness ==
  /\ pc = "pace" /\ ~Dispatched
  /\ Head(due).status = "up" /\ NewStatus(result) = "up"
  /\ Len(history) >= 2
  /\ history[Len(history)].device_id = Head(due).id
  /\ history[Len(history)].status = "up"

\* ---------------------------------------------------------------- C6
DueNow(row, t) == row.last_check = NULL \/ row.last_check * 60 + row.ping_interval <= t * 60
Effective(row) == IF row.last_check = NULL THEN 0 ELSE row.last_check

\* C6: getDueDevices returns at most DueLimit devices (the query's LIMIT), each
\* a distinct device of the table that is due (last_check null, or last_check +
\* ping_interval seconds <= now); the rows are in ascending order of last_check
\* with null counted as the epoch, so every never-checked device comes before
\* every checked one; as many rows are returned as are due, up to the limit, and
\* no due device left out has an older effective last_check than a returned
\* one; the query changes no table.
C6_DueSet ==
  lastDue # NoDue =>
    LET rows == lastDue.rows
        dueIds == {d \in DOMAIN devices : DueNow(devices[d], now)}
        returned == {rows[i].id : i \in DOMAIN rows}
    IN /\ Len(rows) <= DueLimit
       /\ Len(rows) = Min(DueLimit, Cardinality(dueIds))
       /\ \A i \in DOMAIN rows :
            /\ rows[i].id \in dueIds
            /\ rows[i].last_check = devices[rows[i].id].last_check
            /\ rows[i].ping_interval = devices[rows[i].id].ping_interval
       /\ \A i, j \in DOMAIN rows :
            /\ i < j => Effective(rows[i]) <= Effective(rows[j])
            /\ i # j => rows[i].id # rows[j].id
            /\ rows[i].last_check = NULL /\ rows[j].last_check # NULL => i < j
       /\ \A d \in dueIds \ returned :
            \A e \in returned : Effective(devices[e]) <= Effective(devices[d])
       /\ lastDue.before = <<devices, stores, alerts, ledger, history>>

\* More devices are due than the limit admits, a never-checked one and checked
\* ones among them, and a checked due device was left out.
C6_Witness ==
  /\ lastDue # NoDue
  /\ Len(lastDue.rows) = DueLimit
  /\ Cardinality({d \in DOMAIN devices : DueNow(devices[d], now)}) > DueLimit
  /\ lastDue.rows[1].last_check = NULL
  /\ lastDue.rows[2].last_check # NULL
  /\ \E d \in DOMAIN devices :
       /\ DueNow(devices[d], now)
       /\ d \notin {lastDue.rows[i].id : i \in DOMAIN lastDue.rows}
       /\ devices[d].last_check > lastDue.rows[2].last_check

\* ---------------------------------------------------------------- C7
\* C7: under the fair loop a device that is due is eventually checked (its
\* last_check is brought up to date, so that it is no longer due), also when
\* more devices are due than the limit admits and when probes or writes fail.
C7_NoStarvation ==
  \A d \in DeviceIds :
    (d \in DOMAIN devices /\ IsDue(devices[d], now))
      ~> (d \notin DOMAIN devices \/ ~IsDue(devices[d], now))

\* ---------------------------------------------------------------- C8
\* C8: after any sequence of updateAlertEvent calls the ledger holds exactly
\* one row per key that was ever recorded; a call sets its key's row to the
\* time of the call, which is not before the row's previous timestamp, and
\* leaves every other key's row as it was.
C8_UpsertOneRowPerKey ==
  /\ \A r1, r2 \in ledger :
       (r1.user_id = r2.user_id /\ r1.device_id = r2.device_id
          /\ r1.event_type = r2.event_type) => r1 = r2
  /\ lastUpsert # NoUpsert =>
       LET key(r) == <<r.user_id, r.device_id, r.event_type>>
           k == <<lastUpsert.user_id, lastUpsert.device_id, lastUpsert.event_type>>
       IN /\ \E r \in ledger : key(r) = k /\ r.last_sent = lastUpsert.at
          /\ \A r \in lastUpsert.before : key(r) = k => r.last_sent <= lastUpsert.at
          /\ {r \in ledger : key(r) # k} = {r \in lastUpsert.before : key(r) # k}
          /\ {key(r) : r \in ledger} = {key(r) : r \in lastUpsert.before} \cup {k}

\* A key recorded earlier is recorded again later, beside another key's row:
\* its one row moved forward and the other row stayed.
C8_Witness ==
  /\ lastUpsert # NoUpsert
  /\ \E r \in lastUpsert.before :
       /\ r.device_id = lastUpsert.device_id /\ r.event_type = lastUpsert.event_type
       /\ r.last_sent < lastUpsert.at
  /\ \E r \in lastUpsert.before : r.device_id # lastUpsert.device_id
  /\ Cardinality(ledger) = Cardinality(lastUpsert.before)

\* ---------------------------------------------------------------- C9
\* C9: for a device with no URL and no port executeDeviceCheck tries ping, then
\* TCP 443, then TCP 80, and stops at the first success: after a successful
\* ping no TCP probe is attempted; after a failed ping and a successful TCP 443
\* the result is that probe's (up, its latency) and TCP 80 is not attempted;
\* when TCP 443 fails too the result is the TCP 80 probe's, a failure when
\* that fails as well.
C9_FallbackOrder ==
  (lastProbe # NoProbe /\ lastProbe.called
     /\ lastProbe.device.url = "" /\ lastProbe.device.port = 0) =>
    LET env == lastProbe.env
        out == lastProbe.out
    IN /\ ~out.threw
       /\ env.ping = "ok" =>
            /\ out.attempts = <<"ping">>
            /\ out.result.status = "up" /\ out.result.latency = NULL
       /\ env.ping # "ok" /\ env.tcp443 =>
            /\ out.attempts = <<"ping", "tcp443">>
            /\ out.result.status = "up" /\ out.result.latency = env.lat443
       /\ env.ping # "ok" /\ ~env.tcp443 =>
            /\ out.attempts = <<"ping", "tcp443", "tcp80">>
            /\ out.result.status = (IF env.tcp80 THEN "up" ELSE "down")
            /\ out.result.packet_loss = (IF env.tcp80 THEN 0 ELSE 100)
            /\ out.result.latency = env.lat80

\* Ping failed, TCP 443 connected, and TCP 80, which would have connected
\* with another latency, was not attempted.
C9_Witness ==
  /\ lastProbe # NoProbe /\ lastProbe.called
  /\ lastProbe.device.url = "" /\ lastProbe.device.port = 0
  /\ lastProbe.env.ping = "fail" /\ lastProbe.env.tcp443 /\ lastProbe.env.tcp80
  /\ lastProbe.env.lat443 # lastProbe.env.lat80
  /\ lastProbe.out.attempts = <<"ping", "tcp443">>
  /\ lastProbe.out.result.latency = lastProbe.env.lat443

\* --------------------------------------------------------------- C10
\* C10: executeDeviceCheck never throws or rejects, whatever the device's
\* configuration: every call resolves to a result whose status is 'up' or
\* 'down'.
C10_NeverThrows ==
  (lastProbe # NoProbe /\ lastProbe.called) =>
    /\ ~lastProbe.out.threw
    /\ lastProbe.out.result.status \in {"up", "down"}

\* ------------------------------------------------------- C11 .. C13
\* A step in which persisting the current device's result raised: the worker
\* leaves updateDevice without reaching writeHistory, or leaves writeHistory
\* without reaching the alert decision or the pacing sleep.
PersistFailed ==
  \/ pc = "update" /\ pc' \notin {"update", "history"}
  \/ pc = "history" /\ pc' \notin {"history", "alert", "pace"}

\* C11: when persisting one device's result fails (updateDevice or
\* writeHistory raises) only that device's iteration is abandoned: the tick
\* goes on with the remaining devices of the same due set.
C11_PersistFailureSkipsOneDevice ==
  [][(PersistFailed /\ Len(due) > 1) => (due' = Tail(due) /\ pc' = "probe")]_vars

\* C12: when a device's iteration is abandoned because persisting its result
\* failed (updateDevice or writeHistory), the device's stored last_check and
\* status are those it had before the check, so that the next tick selects it
\* again and its transition is not lost.
C12_PersistFailureLeavesDevice ==
  [][PersistFailed =>
       /\ devices'[Head(due).id].last_check = Head(due).last_check
       /\ devices'[Head(due).id].status = Head(due).status]_vars

\* C13: a failure of retentionCleanup never aborts the tick: whether pruning
\* succeeds or raises, the worker goes on to fetch the due set in the same
\* loop iteration.
C13_PruningFailureKeepsTick ==
  [][(pc = "cleanup" /\ pc' # "cleanup") => pc' = "getDue"]_vars

\* --------------------------------------------------------------- C14
\* C14: the loop never ends because of a tick: whatever raised in the body of
\* an iteration (pruning, the due-set query, a probe, persistence, alerting),
\* the worker reaches its 20 s sleep, and after every sleep another iteration
\* begins.
C14_LoopNeverTerminates ==
  /\ []<>(pc = "sleep")
  /\ (pc = "sleep") ~> (pc = "cleanup")

\* The dispatcher raised (a store read failed) in the middle of a tick with
\* another device still to handle, and the worker is in its sleep.
C14_Witness ==
  /\ pc = "sleep"
  /\ lastAlert # NoAlert /\ lastAlert.threw
  /\ \E d \in DOMAIN devices : d # lastAlert.device.id /\ IsDue(devices[d], now)

\* --------------------------------------------------------------- C15
\* C15: the dispatcher writes the ledger only after the transport accepted
\* the mail; when SMTP is not configured or the send fails it writes and
\* changes no ledger row and does not raise, so the key's timestamp, which
\* alone gates the next transition of that direction, is what it was.
C15_LedgerOnlyAfterSend ==
  Dispatched =>
    /\ ledger # lastAlert.ledgerBefore => lastAlert.mail
    /\ (~smtp \/ lastAlert.outcome \in {"smtp not configured", "send failed"}) =>
         /\ ~lastAlert.mail
         /\ ledger = lastAlert.ledgerBefore
         /\ SentAt(ledger, lastAlert.device.id, Direction(lastAlert.newStatus))
              = SentAt(lastAlert.ledgerBefore, lastAlert.device.id,
                       Direction(lastAlert.newStatus))
    /\ lastAlert.outcome \in {"smtp not configured", "send failed"} => ~lastAlert.threw

\* An enabled configuration, SMTP configured, the key's last notification a
\* full cooldown ago: the send fails, the ledger row keeps its old timestamp
\* and the worker goes on to the pacing sleep.
C15_Witness ==
  /\ Dispatched /\ Enabled /\ smtp
  /\ lastAlert.outcome = "send failed"
  /\ SentAt(lastAlert.ledgerBefore, lastAlert.device.id, Direction(lastAlert.newStatus)) # NULL
  /\ lastAlert.at - SentAt(lastAlert.ledgerBefore, lastAlert.device.id,
                           Direction(lastAlert.newStatus)) >= Cooldown
  /\ ledger = lastAlert.ledgerBefore
  /\ pc = "pace"

\* --------------------------------------------------------------- C17
\* C17: when the tenant has no enabled alert configuration (no row, or a row
\* with enabled = false) a status transition sends no mail and writes no
\* ledger row.
C17_NoEnabledConfigNoAlert ==
  (Dispatched /\ ~Enabled) => (~lastAlert.mail /\ ledger = lastAlert.ledgerBefore)

\* A disabled row, SMTP configured, no window and no ledger row: an up-to-down
\* transition is dropped at the configuration test.
C17_Witness ==
  /\ Dispatched /\ alerts # {} /\ ~Enabled /\ smtp
  /\ lastAlert.prevStatus = "up" /\ lastAlert.newStatus = "down"
  /\ ~Covered(lastAlert.device, lastAlert.at)
  /\ lastAlert.ledgerBefore = {}
  /\ lastAlert.outcome = "no config"
  /\ ~lastAlert.mail /\ ledger = {}

\* --------------------------------------------------------------- C16
\* C16: isInMaintenance(device, now) is true exactly when the store's window
\* or the device's window is active, a window being active when its start is
\* set, now >= start, and its end is unset or now <= end.  So an active store
\* window gives true whatever the device window, a window starting in the
\* future is inactive, and an open-ended window is active from its start on.
C16_MaintenanceDefinition ==
  (lastMaint # NoMaint /\ lastMaint.called) =>
    LET d == lastMaint.device
        t == lastMaint.at
        storeActive == WindowCovers(d.store_maintenance_start, d.store_maintenance_end, t)
        deviceActive == WindowCovers(d.maintenance_start, d.maintenance_end, t)
    IN /\ lastMaint.out <=> (storeActive \/ deviceActive)
       /\ storeActive => lastMaint.out
       /\ (d.store_maintenance_start > t /\ d.maintenance_start > t) => ~lastMaint.out
       /\ (d.maintenance_start # NULL /\ d.maintenance_start <= t
             /\ d.maintenance_end = NULL) => lastMaint.out

\* The store's window starts in the future and the device's open-ended window
\* started in the past: the device is in maintenance.
C16_Witness ==
  /\ lastMaint # NoMaint /\ lastMaint.called
  /\ lastMaint.device.store_maintenance_start > lastMaint.at
  /\ lastMaint.device.maintenance_start # NULL
  /\ lastMaint.device.maintenance_start < lastMaint.at
  /\ lastMaint.device.maintenance_end = NULL
  /\ lastMaint.out

\* --------------------------------------------------------------- C18
\* C18: the HTTP probe reports 'up' exactly when a response arrives with a
\* status code below 500, and 'down' for a code of 500 or more, a timeout or
\* a connection error; packet_loss is 0 when up and 100 when down; a 503
\* response gives 'down' with detail statusCode 503.
C18_HttpThresholds ==
  (lastProbe # NoProbe /\ lastProbe.called
     /\ lastProbe.device.url \in {"http://x", "https://x"}) =>
    LET env == lastProbe.env
        out == lastProbe.out
    IN /\ ~out.threw
       /\ out.attempts = <<"http">>
       /\ out.result.status \in {"up", "down"}
       /\ out.result.status = "up" <=> (env.httpEvent = "response" /\ env.code < 500)
       /\ out.result.packet_loss = (IF out.result.status = "up" THEN 0 ELSE 100)
       /\ env.httpEvent = "response" => out.result.detail = [statusCode |-> env.code]
       /\ (env.httpEvent = "response" /\ env.code = 503) =>
            (out.result.status = "down" /\ out.result.detail.statusCode = 503)

\* A 499 response: the highest code that still counts as up.
C18_Witness ==
  /\ lastProbe # NoProbe /\ lastProbe.called
  /\ lastProbe.device.url = "https://x"
  /\ lastProbe.env.httpEvent = "response" /\ lastProbe.env.code = 499
  /\ lastProbe.out.result.status = "up"
  /\ lastProbe.out.result.packet_loss = 0

\* --------------------------------------------------------------- C19
\* C19: for any sequence of lock() and unlock() calls the body is held fixed
\* (position fixed, top minus the saved scroll position, width 100%) exactly
\* while lock() calls are outstanding; the body's previous styles are
\* restored and win.scrollTo(0, y) is called, once, only by the unlock() that
\* releases the outermost lock, y being the scroll position at the outermost
\* lock(); an inner lock() or unlock() changes no style and calls no
\* scrollTo; unlock() with no lock outstanding changes nothing.
C19_ScrollLock ==
  scroll # NoScroll =>
    LET s == scroll
        outermostUnlock == s.last.op = "unlock" /\ s.last.before = 1
        inner == \/ s.last.op = "lock" /\ s.last.before >= 1
                 \/ s.last.op = "unlock" /\ s.last.before >= 2
    IN /\ s.outstanding > 0 =>
            (s.body.position = "fixed" /\ s.body.top = NegPx(s.outerY)
               /\ s.body.width = "100%")
       /\ s.outstanding = 0 => (s.body = s.outerBody /\ s.body.position # "fixed")
       /\ outermostUnlock => (s.last.calls = <<s.outerY>> /\ s.body = s.outerBody)
       /\ ~outermostUnlock => s.last.calls = <<>>
       /\ inner => s.body = s.last.bodyBefore
       /\ (s.last.op = "unlock" /\ s.last.before = 0) =>
            (s.body = s.last.bodyBefore /\ s.win = s.last.winBefore /\ Depth(s) = 0)

\* Two nested locks taken at scroll position 320 on a page with styles of its
\* own; the page was scrolled elsewhere meanwhile; the second unlock() put the
\* page's styles back and called scrollTo(0, 320), once.
C19_Witness ==
  /\ scroll # NoScroll
  /\ scroll.impl = 2
  /\ scroll.last.op = "unlock" /\ scroll.last.before = 1 /\ scroll.nested
  /\ scroll.outerY = 320 /\ scroll.last.winBefore.pageYOffset = 150
  /\ scroll.last.calls = <<320>>
  /\ scroll.body.position = "relative" /\ scroll.body.top = "10px"

\* --------------------------------------------------------------- C20
\* The order of the worker's steps: of one loop iteration, and, inside tick, of
\* one device (probe, update, history, alert decision, pacing); any step but
\* the pacing may instead end the iteration in the sleep.
TickOrder ==
  {<<"cleanup", "getDue">>, <<"getDue", "probe">>, <<"probe", "update">>,
   <<"update", "history">>, <<"history", "alert">>, <<"history", "pace">>,
   <<"alert", "pace">>, <<"pace", "probe">>, <<"pace", "sleep">>,
   <<"sleep", "cleanup">>}
    \cup {<<p, "sleep">> : p \in {"cleanup", "getDue", "probe", "update", "history", "alert"}}

\* C20: within a tick the due devices are handled one at a time in due-set
\* order: a device's probe completes before its row is updated, the update
\* precedes its history append, the append precedes the alert decision; the
\* next device is taken up only at the pacing sleep that ends the previous
\* one, with nothing of the previous device left over; and the alert decision
\* is made on that device's own fetched status and own probe result.
C20_SequentialPerDevice ==
  [][/\ pc' # pc => <<pc, pc'>> \in TickOrder
     /\ due' # due => \/ pc = "getDue" /\ pc' = "probe"
                      \/ pc = "pace" /\ due' = Tail(due)
                      \/ pc' = "sleep" /\ due' = <<>>
     /\ pc = "probe" => (result = NoResult /\ lastAlert = NoAlert)
     /\ (pc = "probe" /\ pc' = "update") => result'.status \in {"up", "down"}
     /\ (pc = "update" /\ pc' = "history") =>
          /\ devices'[Head(due).id].status = result.status
          /\ devices'[Head(due).id].last_check = now
          /\ \A d \in DOMAIN devices \ {Head(due).id} : devices'[d] = devices[d]
     /\ (pc = "history" /\ pc' \in {"alert", "pace"}) =>
          /\ Len(history') = Len(history) + 1
          /\ history'[Len(history')].device_id = Head(due).id
          /\ history'[Len(history')].status = result.status
     /\ (pc = "alert" /\ pc' # "alert") =>
          /\ lastAlert'.device = Head(due)
          /\ lastAlert'.prevStatus = Head(due).status
          /\ lastAlert'.newStatus = result.status]_vars

\* The second device of a due set is at its alert decision: the history ends
\* with the first device's row followed by its own, both written this minute.
C20_Witness ==
  /\ pc = "alert" /\ Len(due) = 1 /\ now = Boot
  /\ Len(history) = 2
  /\ history[1].device_id # Head(due).id
  /\ history[2].device_id = Head(due).id
  /\ history[2].status = result.status
  /\ devices[Head(due).id].last_check = now
  /\ devices[history[1].device_id].last_check = now

\* C21: every completed check of a device (updateDevice and writeHistory both
\* done) appends exactly one history row, for that device, carrying the status
\* and packet loss just stored in the device row; no other step of the worker
\* or of the tenant appends a row; and the rows of one device carry
\* non-decreasing timestamps in the order of their insertion.
C21_OneHistoryRowPerCheck ==
  /\ [][(pc = "history" /\ pc' \in {"alert", "pace"}) =>
          LET d == Head(due).id
              n == Len(history)
          IN /\ Len(history') = n + 1
             /\ SubSeq(history', 1, n) = history
             /\ history'[n + 1].device_id = d
             /\ history'[n + 1].status = devices[d].status
             /\ history'[n + 1].packet_loss = devices[d].packet_loss]_vars
  /\ [][(pc # "history" \/ pc' \notin {"alert", "pace"}) =>
          Len(history') <= Len(history)]_vars
  /\ [](\A i, j \in 1..Len(history) :
          (i < j /\ history[i].device_id = history[j].device_id)
            => history[i].timestamp <= history[j].timestamp)

\* A device checked twice, a minute apart, one check up and one down.
C21_Witness ==
  \E i, j \in 1..Len(history) :
    /\ i < j
    /\ history[i].device_id = history[j].device_id
    /\ history[i].timestamp < history[j].timestamp
    /\ history[i].status # history[j].status
    /\ history[j].packet_loss = devices[history[j].device_id].packet_loss

\* The devices present before and after a step.
Kept == DOMAIN devices \cap DOMAIN devices'
\* A step of a tenant route (each request is counted in tenantOps).
TenantStep == tenantOps' # tenantOps
\* The observed state of device d is the same after the step.
ObservedKept(d) ==
  /\ devices'[d].status = devices[d].status
  /\ devices'[d].packet_loss = devices[d].packet_loss
  /\ devices'[d].last_check = devices[d].last_check
\* No maintenance window of a device or a store differs after the step.
WindowsKept ==
  /\ \A d \in Kept : /\ devices'[d].maintenance_start = devices[d].maintenance_start
                     /\ devices'[d].maintenance_end = devices[d].maintenance_end
  /\ stores' = stores

\* C22: no tenant route (device create or edit, maintenance set or clear,
\* test-now) changes the status, packet_loss or last_check of an existing
\* device; these change only in the worker's updateDevice; and no step of the
\* worker changes a maintenance window of a device or a store.
C22_TenantLeavesObservedState ==
  [][/\ \A d \in Kept : ObservedKept(d) \/ (~TenantStep /\ pc = "update" /\ d = Head(due).id)
     /\ (~TenantStep => WindowsKept)]_vars

\* C22 as amended: test-now is the one tenant route that writes last_check,
\* to 365 days before the request, leaving status and packet_loss; every
\* other change of the three fields is the worker's updateDevice on the
\* device it is checking, which stamps last_check with the current time; no
\* step of the worker changes a maintenance window.
C22_OnlyTestNowRequeues ==
  [][/\ \A d \in Kept :
          \/ ObservedKept(d)
          \/ /\ ~TenantStep
             /\ pc = "update"
             /\ d = Head(due).id
             /\ devices'[d].last_check = now
          \/ /\ TenantStep
             /\ devices'[d].status = devices[d].status
             /\ devices'[d].packet_loss = devices[d].packet_loss
             /\ devices'[d].last_check = now - 365 * 24 * 60
     /\ (~TenantStep => WindowsKept)]_vars

\* test-now has re-queued a device that was checked before: its last_check
\* lies a year back while its status and packet loss are those of the check.
C22_Witness ==
  \E d \in DOMAIN devices :
    /\ devices[d].last_check = now - 365 * 24 * 60
    /\ devices[d].status \in {"up", "down"}
    /\ devices[d].packet_loss # NULL
    /\ tenantOps = 1

\* The sample was taken more than 90 days before t.
OlderThan90Days(r, t) == t - r.timestamp > 90 * 24 * 60
\* Whether a notification for (d, e) is held back by the cooldown at time t,
\* given the alerts table and the ledger.
HeldBack(tbl, L, d, e, t) ==
  LET cfg == shouldSendEmail(tbl, UserId)
      last == getLastAlertSent(L, UserId, d, e)
  IN cfg # NoRow /\ last # NULL /\ t - last < cfg.cooldown_minutes

\* C23: a pruning run deletes exactly the history samples older than 90 days,
\* keeps the others in their order, and leaves the ledger, the device rows
\* and the alert configuration as they were, so that for every device and
\* event type the cooldown holds a notification back after the run if and
\* only if it did before.
C23_PruningLeavesCooldown ==
  [][pc = "cleanup" =>
       /\ history' = SelectSeq(history, LAMBDA r : ~OlderThan90Days(r, now))
          \/ history' = history
       /\ pc' = "getDue" => history' = SelectSeq(history, LAMBDA r : ~OlderThan90Days(r, now))
       /\ ledger' = ledger
       /\ devices' = devices
       /\ alerts' = alerts
       /\ \A d \in DeviceIds, e \in EventTypes :
            HeldBack(alerts', ledger', d, e, now') <=> HeldBack(alerts, ledger, d, e, now)]_vars

\* A run has deleted one of the MaxSamples samples and kept the one taken exactly
\* 90 days ago, while the cooldown holds back d1's down notification.
C23_Witness ==
  /\ pc = "getDue"
  /\ Len(history) = MaxSamples - 1
  /\ \E i \in 1..Len(history) : history[i].timestamp = now - 90 * 24 * 60
  /\ HeldBack(alerts, ledger, "d1", "email_down", now)

\* C24: executeDeviceCheck applies one strategy, chosen by the device's
\* configuration: the HTTP probe alone when a URL is set, a port being set or
\* not; otherwise the TCP probe of the device's port alone when a port is set;
\* otherwise ping, followed by TCP 443 and TCP 80 as far as needed.  The
\* outcome of the HTTP probe or of the explicit-port probe is the call's
\* outcome: a failure of either starts no further probe.
C24_OneStrategyByConfig ==
  (lastProbe # NoProbe /\ lastProbe.called) =>
    LET device == lastProbe.device
        env == lastProbe.env
        out == lastProbe.out
    IN /\ device.url # "" =>
            /\ out.attempts = <<"http">>
            /\ ~out.threw =>
                 /\ out.result.latency = env.httpLat
                 /\ out.result.status = "up" <=> (env.httpEvent = "response" /\ env.code < 500)
       /\ (device.url = "" /\ device.port # 0) =>
            /\ out.attempts = <<"tcp">>
            /\ ~out.threw =>
                 /\ out.result.latency = env.latPort
                 /\ out.result.status = "up" <=> env.tcpPort
       /\ (device.url = "" /\ device.port = 0) =>
            /\ out.attempts \in {<<"ping">>, <<"ping", "tcp443">>, <<"ping", "tcp443", "tcp80">>}

\* A device with both a URL and a port whose HTTP probe failed although its
\* port, TCP 443 and TCP 80 would all have connected and ping would have
\* answered: the call's result is down and no other probe was started.
C24_Witness ==
  /\ lastProbe # NoProbe /\ lastProbe.called
  /\ lastProbe.device.url # "" /\ lastProbe.device.port = 8080
  /\ lastProbe.env.ping = "ok" /\ lastProbe.env.tcpPort
  /\ lastProbe.env.tcp443 /\ lastProbe.env.tcp80
  /\ ~lastProbe.out.threw
  /\ lastProbe.out.result.status = "down"
  /\ lastProbe.out.attempts = <<"http">>

\* The tenant is on the premium plan at time t: the plan column says premium,
\* the subscription is active and has not run out.
PremiumAt(t) ==
  /\ users[UserId].plan = "premium"
  /\ users[UserId].plan_status = "active"
  /\ (users[UserId].premium_until = NULL \/ t < users[UserId].premium_until)

\* C25: a device gets its check interval when it is created, 900 seconds if
\* the tenant is on premium at that moment and 7200 seconds otherwise, and no
\* later step (device edit, test-now, maintenance, a change of the plan, a
\* check by the worker) changes the interval of an existing device.
C25_IntervalFixedAtCreation ==
  [][/\ \A d \in Kept : devices'[d].ping_interval = devices[d].ping_interval
     /\ \A d \in DOMAIN devices' \ DOMAIN devices :
          devices'[d].ping_interval = (IF PremiumAt(now) THEN 900 ELSE 7200)]_vars

\* d2 was created while the tenant was on premium and has been checked; the
\* premium has run out since, and the interval is still 900 seconds.
C25_Witness ==
  /\ "d2" \in DOMAIN devices
  /\ devices["d2"].ping_interval = 900
  /\ devices["d2"].status \in {"up", "down"}
  /\ ~PremiumAt(now)
  /\ tenantOps = 1

\* The windows now stored for device d, its own or its store's, cover t.
StoredCover(d, t) == d \in DOMAIN devices /\ Covered(JoinedRow(devices, stores, d), t)

\* C26: when the window stored for a device or for its store is active at the
\* moment the worker runs the dispatcher for that device, the dispatcher sends
\* no mail and writes no ledger row, also when the tenant set the window after
\* the tick had fetched its due set.
C26_SuppressionSeesStoredWindow ==
  [][(pc = "alert" /\ pc' # "alert" /\ StoredCover(Head(due).id, now)) =>
       (mails' = mails /\ ledger' = ledger)]_vars

\* The device the tick is working on was deleted after the fetch.
CurrentDeleted == due # <<>> /\ Head(due).id \notin DOMAIN devices

\* No row of the history or of the ledger belongs to a device that is not in
\* the devices table, and only a tenant request adds a device row.
NothingForDeleted ==
  /\ [](/\ \A i \in 1..Len(history) : history[i].device_id \in DOMAIN devices
        /\ \A r \in ledger : r.device_id \in DOMAIN devices)
  /\ [][DOMAIN devices' \subseteq DOMAIN devices \/ TenantStep]_vars

\* C27: when the tenant deletes a device that the tick has fetched and not
\* yet finished, the tick goes on to the devices that follow it in the due
\* set, and no device row, history row or ledger row comes to exist for the
\* deleted device.
C27_DeletedDeviceSkipped ==
  /\ [][(pc = "history" /\ CurrentDeleted /\ Len(due) > 1) => due' # <<>>]_vars
  /\ NothingForDeleted

\* A status and packet loss as a check leaves them: up with no loss, or down
\* with total loss.
UpOrDown(row) ==
  \/ row.status = "up" /\ row.packet_loss = 0
  \/ row.status = "down" /\ row.packet_loss = 100

\* C28: whatever the worker writes to a device row or to the history is
\* status 'up' with packet_loss 0 or status 'down' with packet_loss 100, never
\* another status; a device whose own or whose store's window is active is
\* fetched, probed and updated like any other.
C28_WorkerWritesUpOrDown ==
  /\ [](/\ \A d \in DOMAIN devices :
             UpOrDown(devices[d])
             \/ (devices[d].status = "unknown" /\ devices[d].last_check = NULL)
        /\ \A i \in 1..Len(history) : UpOrDown(history[i]))
  /\ [][(pc = "update" /\ pc' = "history") =>
          /\ UpOrDown(devices'[Head(due).id])
          /\ devices'[Head(due).id].last_check = now]_vars
  /\ [][(pc = "getDue" /\ pc' = "probe") =>
          \A d \in DOMAIN devices :
            DueNow(devices[d], now) =>
              (Len(due') = DueLimit \/ \E i \in 1..Len(due') : due'[i].id = d)]_vars

\* A device was checked while its own window was active: it is down in the
\* device row and in the history, with total loss, not 'maintenance'.
C28_Witness ==
  \E d \in DOMAIN devices :
    /\ WindowCovers(devices[d].maintenance_start, devices[d].maintenance_end,
                    devices[d].last_check)
    /\ devices[d].status = "down" /\ devices[d].packet_loss = 100
    /\ \E i \in 1..Len(history) :
         /\ history[i].device_id = d
         /\ history[i].timestamp = devices[d].last_check
         /\ history[i].status = "down" /\ history[i].packet_loss = 100
    /\ pc = "pace" /\ Head(due).id = d
    /\ Covered(Head(due), now)

\* C29: the first check of a device is a transition: from 'unknown' the tick
\* always runs the dispatcher; for unknown -> up, with an enabled
\* configuration, no window covering the dispatch, no up notification within
\* the cooldown and a working store and transport, the mail is sent and the
\* email_up row is written with the time of the dispatch (unless that very
\* write fails), the email_down row staying as it was.  Every new status
\* other than 'down' is gated and recorded under the email_up key.
C29_FirstCheckIsTransition ==
  /\ [][(pc = "history" /\ pc' \notin {"history", "sleep"} /\ Head(due).status = "unknown")
          => pc' = "alert"]_vars
  /\ [](\A st \in {"up", "unknown", "warning", "maintenance"} : EventTypeOf(st) = "email_up")
  /\ []((Dispatched /\ lastAlert.newStatus # "down") =>
          LET d == lastAlert.device.id
              T == SentAt(lastAlert.ledgerBefore, d, "email_up")
          IN /\ SentAt(ledger, d, "email_down") = SentAt(lastAlert.ledgerBefore, d, "email_down")
             /\ (T # NULL /\ alerts # {} /\ Enabled /\ lastAlert.at - T < Cooldown)
                  => ~lastAlert.mail
             /\ (/\ lastAlert.prevStatus = "unknown"
                 /\ Enabled /\ Working
                 /\ ~Covered(lastAlert.device, lastAlert.at)
                 /\ (T = NULL \/ lastAlert.at - T >= Cooldown)) =>
                  /\ lastAlert.mail
                  /\ lastAlert.outcome # "ledger write failed"
                       => SentAt(ledger, d, "email_up") = lastAlert.at)

\* A never-checked device answered its first probe: the dispatcher mailed the
\* up notification and recorded it under email_up.
C29_Witness ==
  /\ Dispatched /\ pc = "pace"
  /\ lastAlert.prevStatus = "unknown" /\ lastAlert.newStatus = "up"
  /\ lastAlert.device.last_check = NULL
  /\ lastAlert.mail
  /\ lastAlert.ledgerBefore = {}
  /\ SentAt(ledger, lastAlert.device.id, "email_up") = lastAlert.at
  /\ SentAt(ledger, lastAlert.device.id, "email_down") = NULL

\* The window each request of a log falls in, by its start: a window starts at
\* the first request of the key, or at the first request made windowMs or more
\* after the start of the window before it.
WindowStarts(L, windowMs) ==
  LET ws[i \in 1..Len(L)] ==
        IF i = 1 THEN L[1].at
        ELSE IF L[i].at - ws[i - 1] >= windowMs THEN L[i].at ELSE ws[i - 1]
  IN ws

\* The place of request i among the requests of its window.
RankInWindow(L, windowMs, i) ==
  Cardinality({j \in 1..i : WindowStarts(L, windowMs)[j] = WindowStarts(L, windowMs)[i]})

\* C30: for a limiter made by createMemoryRateLimiter, the requests of a key
\* are counted per fixed window of windowMs, a window starting at the key's
\* first request or at its first request after the window before has elapsed.
\* A request whose place in its window is within the maximum is passed on to
\* next(); every further one is answered 429 with a Retry-After of at least one
\* second and is not passed on, so that with a fixed maxRequests no window
\* passes more than maxRequests requests.  The count the limiter holds for a key
\* is the number of that key's own requests in its current window, whatever
\* the requests made under other keys.
C30_PerKeyFixedWindow ==
  limiter # NoLimiter =>
    \A k \in Keys :
      LET L == limiter.log[k]
          W == limiter.cfg.windowMs
      IN /\ \A i \in 1..Len(L) :
              IF RankInWindow(L, W, i) <= L[i].max
                THEN L[i].next /\ L[i].status # 429
                ELSE ~L[i].next /\ L[i].status = 429 /\ L[i].retryAfter >= 1
         /\ ~limiter.cfg.isFunction =>
              \A i \in 1..Len(L) :
                Cardinality({j \in 1..Len(L) :
                               /\ WindowStarts(L, W)[j] = WindowStarts(L, W)[i]
                               /\ L[j].next}) <= limiter.cfg.maxRequests
         /\ Len(L) > 0 =>
              /\ k \in DOMAIN limiter.state
              /\ limiter.state[k].start = WindowStarts(L, W)[Len(L)]
              /\ limiter.state[k].count = RankInWindow(L, W, Len(L))
         /\ Len(L) = 0 => k \notin DOMAIN limiter.state

\* One key was refused with 429 inside its window and passed again once the
\* window had elapsed, while the other key's requests, made after the refusal,
\* were all passed.
C30_Witness ==
  /\ limiter # NoLimiter
  /\ \E a \in Keys, b \in Keys :
       /\ a # b
       /\ \E i \in 1..Len(limiter.log[a]), j \in 1..Len(limiter.log[a]) :
            /\ i < j
            /\ limiter.log[a][i].status = 429 /\ ~limiter.log[a][i].next
            /\ limiter.log[a][i].retryAfter >= 1
            /\ limiter.log[a][j].next
            /\ limiter.log[a][j].at - limiter.log[a][1].at >= limiter.cfg.windowMs
            /\ Len(limiter.log[b]) > 0
            /\ \A m \in 1..Len(limiter.log[b]) :
                 /\ limiter.log[b][m].next
                 /\ limiter.log[b][m].at >= limiter.log[a][i].at
                 /\ limiter.log[b][m].at - limiter.log[a][1].at < limiter.cfg.windowMs

====
